---- MODULE Spec2Model ----
(***************************************************************************)
(* MIDAS voice assistant: the streaming chat turn (src/src/routes.py chat) *)
(* with the latency profiler it drives (src/src/utils.py Profiler), the    *)
(* conversation history and settings stores (src/src/config.py), and the   *)
(* knowledge base (src/src/rag.py SimpleRAG and its endpoints).            *)
(*                                                                         *)
(* Text is a sequence of one-character strings.  A websocket connection is *)
(* one run of the chat handler; the handler's position is pc[c].           *)
(***************************************************************************)
EXTENDS Integers, Sequences, FiniteSets, TLC

(***************************************************************************)
(* Bounds of the model.                                                    *)
(***************************************************************************)
\* longest token stream the language model produces in a free turn
MaxTokens == 4
\* number of HistoryManager.add calls explored in the history specification
MaxAdds == 10
\* largest perf_counter reading explored in the profiler specification (ms)
MaxClock == 900
\* number of knowledge-base requests explored step by step
MaxRequests == 3
MaxSamples == 2
MaxCalls == 2

(***************************************************************************)
(* Text helpers (Python str / re semantics on the modelled alphabet).      *)
(***************************************************************************)
\* characters str.strip()/str.rstrip() remove
Whitespace == {" ", "\n", "\t"}

\* the flush delimiters with the closing bracket among them
DelimitersAndBracket == {".", "!", "?", ",", ":", ";", "]"}

\* routes.py:245 the flush delimiters
Delimiters == {".", "!", "?", ",", ":", ";"}

RECURSIVE Concat(_)
\* "".join(parts)
Concat(parts) ==
    IF parts = <<>> THEN <<>> ELSE Head(parts) \o Concat(Tail(parts))

RECURSIVE RStrip(_)
\* str.rstrip()
RStrip(s) ==
    IF s = <<>> THEN <<>>
    ELSE IF s[Len(s)] \in Whitespace THEN RStrip(SubSeq(s, 1, Len(s) - 1))
    ELSE s

RECURSIVE LStrip(_)
\* str.lstrip()
LStrip(s) ==
    IF s = <<>> THEN <<>>
    ELSE IF Head(s) \in Whitespace THEN LStrip(Tail(s))
    ELSE s

\* str.strip()
Strip(s) == LStrip(RStrip(s))

\* str.endswith(p) for a one-character p
EndsWith(s, p) == s # <<>> /\ s[Len(s)] = p

\* index of the first "]" at or after position i that a non-greedy .*? can
\* reach from i ("." does not match a newline); 0 when there is none
RECURSIVE CloseFrom(_, _)
CloseFrom(s, i) ==
    IF i > Len(s) THEN 0
    ELSE IF s[i] = "]" THEN i
    ELSE IF s[i] = "\n" THEN 0
    ELSE CloseFrom(s, i + 1)

RECURSIVE SubBracketsFrom(_, _)
SubBracketsFrom(s, i) ==
    IF i > Len(s) THEN <<>>
    ELSE IF s[i] = "[" /\ CloseFrom(s, i + 1) # 0
         THEN SubBracketsFrom(s, CloseFrom(s, i + 1) + 1)
         ELSE <<s[i]>> \o SubBracketsFrom(s, i + 1)

\* re.sub(r'\[.*?\]', '', s)
SubBrackets(s) == SubBracketsFrom(s, 1)

\* routes.py:246 and :268  clean = re.sub(r'\[.*?\]', '', buffer).strip()
Clean(buf) == Strip(SubBrackets(buf))

\* the flush condition measuring the trimmed buffer instead of the buffer
FlushCondTrimmed(buf) ==
    /\ \E p \in Delimiters : EndsWith(RStrip(buf), p)
    /\ Len(RStrip(buf)) > 5

\* routes.py:245 the in-loop flush condition
FlushCond(buf) ==
    /\ \E p \in Delimiters : EndsWith(RStrip(buf), p)
    /\ Len(buf) > 5

(***************************************************************************)
(* State.                                                                  *)
(***************************************************************************)
VARIABLES
    settings,       \* SettingsManager._settings
    settings_file,  \* data/settings.json: [state, data]
    slast,          \* the most recent SettingsManager operation and its save
    perf,           \* time.perf_counter(), in milliseconds
    starts,         \* Profiler._starts: name -> perf_counter reading
    times,          \* Profiler.times: name -> milliseconds
    plast,          \* the most recent direct Profiler call and its result
    report_out,     \* the durations logged by the most recent report()
    wav,            \* the most recent audio_to_wav_bytes call and its bytes
    kb,             \* the knowledge directory: whether it exists, its files
    documents,      \* SimpleRAG.documents
    klast,          \* the most recent knowledge-base call and its response
    task,           \* what each thread is doing in a knowledge-base request
    dirs,           \* the states the knowledge directory has been in
    nreq,           \* number of knowledge-base requests started
    history,        \* HistoryManager._history, the in-memory exchange list
    history_file,   \* data/history.json: [state, data]
    now,            \* datetime.now(), a logical clock read by add
    last,           \* the most recent HistoryManager operation and its save
    adds,           \* add calls since construction or the last clear
    write_failed,   \* TRUE once a save() of the history did not succeed
    active,         \* connections on which a chat handler runs
    pc,             \* position of the chat handler of each connection
    script,         \* token stream the language model plays (0: any tokens)
    user_text,      \* data.get("text", "")
    voice,          \* speaker of the turn
    sample_rate,    \* sample rate of the turn
    prompt,         \* the prompt handed to the language model
    buffer,         \* Text Chunk Buffer
    full_response,  \* every generated token, concatenated
    clean,          \* bracket-stripped, trimmed buffer being emitted
    ntok,           \* tokens generated so far in the turn
    first_token,    \* the first token of the turn has arrived
    first_tts,      \* the first synthesis of the turn has returned
    final,          \* TRUE once the token stream has ended
    audio,          \* tensor returned by tts.apply_tts, before it is sent
    sent,           \* messages delivered to the client, in order
    closed,         \* websocket.close() was called by the handler
    error,          \* the except clause that ended the handler, if any
    flushed,        \* raw buffers cleared by the in-loop flushes, in order
    added           \* exchanges the handler passed to history.add, in order

histVars == <<history, history_file, now, last, adds, write_failed>>
profVars == <<perf, starts, times>>
setVars == <<settings_file, slast>>
logVars == <<plast, report_out>>
wavVars == <<wav>>
kbVars == <<kb, documents, klast, task, dirs, nreq>>
chatVars == <<active, pc, script, user_text, voice, sample_rate, prompt, buffer,
              full_response, clean, ntok, first_token, first_tts, final,
              audio, sent, closed, error, flushed, added>>
vars == <<settings, settings_file, slast, perf, starts, times, plast,
          report_out, wav, kb, documents, klast, task, dirs, nreq, history,
          history_file, now, last, adds, write_failed, active, pc, script,
          user_text, voice, sample_rate, prompt, buffer,
          full_response, clean, ntok, first_token, first_tts, final, audio,
          sent, closed, error, flushed, added>>

(***************************************************************************)
(* Conversation history (src/src/config.py HistoryManager).                *)
(***************************************************************************)
\* config.py:121
MAX_HISTORY == 100

\* the slice seq[-n:] of Python, for n >= 1
LastN(seq, n) ==
    IF Len(seq) <= n THEN seq ELSE SubSeq(seq, Len(seq) - n + 1, Len(seq))

\* an exchange as add builds it
Exchange(ts, u, a) == [timestamp |-> ts, user |-> u, assistant |-> a]

\* the history file after a run of this program wrote n exchanges to it
StoredLog(n) == [i \in 1..n |-> Exchange(i - n, <<"h", "i">>, <<"O", "k", ".">>)]

\* lengths of the history file found at start-up
LoadLens == {0, 4, MAX_HISTORY - 3}

\* states of data/history.json at start-up
InitialFiles ==
    {[state |-> "absent", data |-> <<>>], [state |-> "corrupt", data |-> <<>>]}
    \cup {[state |-> "ok", data |-> StoredLog(n)] : n \in LoadLens}

\* HistoryManager._load
Load(file) == IF file.state = "ok" THEN file.data ELSE <<>>

\* outcomes of one save(): written, open() raised, the write raised half-way
SaveOutcomes == {"ok", "open_failed", "write_failed"}

\* save() keeping the oldest MAX_HISTORY exchanges instead of the newest
SaveFileOldest(h, file, outcome) ==
    CASE outcome = "ok" ->
            [state |-> "ok",
             data |-> IF Len(h) <= MAX_HISTORY THEN h ELSE SubSeq(h, 1, MAX_HISTORY)]
      [] outcome = "open_failed" -> file
      [] OTHER -> [state |-> "corrupt", data |-> <<>>]

\* HistoryManager.save: the file after save() with the given outcome
SaveFile(h, file, outcome) ==
    CASE outcome = "ok" -> [state |-> "ok", data |-> LastN(h, MAX_HISTORY)]
      [] outcome = "open_failed" -> file
      [] OTHER -> [state |-> "corrupt", data |-> <<>>]

\* the auto-save condition on every tenth exchange
AutoSaveTenth(h) == Len(h) % 10 = 0

\* the auto-save condition one exchange late
AutoSaveLate(h) == Len(h) % 5 = 1

\* config.py:154 the auto-save condition of add
AutoSaveDue(h) == Len(h) % 5 = 0

\* HistoryManager.add(user_text, assistant_text)
HistoryAdd(u, a) ==
    LET h == Append(history, Exchange(now + 1, u, a)) IN
    /\ history' = h
    /\ now' = now + 1
    /\ adds' = adds + 1
    /\ IF AutoSaveDue(h)
       THEN \E o \in SaveOutcomes :
               /\ history_file' = SaveFile(h, history_file, o)
               /\ write_failed' = (write_failed \/ o # "ok")
               /\ last' = [op |-> "add", saves |-> 1, result |-> o]
       ELSE /\ history_file' = history_file
            /\ write_failed' = write_failed
            /\ last' = [op |-> "add", saves |-> 0, result |-> "none"]

\* HistoryManager.get_all
HistoryGetAll == history

\* get_recent returning the oldest n exchanges instead of the newest
HistoryGetOldest(n) ==
    IF Len(history) <= n THEN history ELSE SubSeq(history, 1, n)

\* HistoryManager.get_recent(n)
HistoryGetRecent(n) == LastN(history, n)

\* clear() emptying the list without the save
HistoryClearNoSave ==
    /\ history' = <<>>
    /\ adds' = 0
    /\ now' = now
    /\ history_file' = history_file
    /\ write_failed' = write_failed
    /\ last' = [op |-> "clear", saves |-> 0, result |-> "none"]

\* HistoryManager.clear
HistoryClear ==
    /\ history' = <<>>
    /\ adds' = 0
    /\ now' = now
    /\ \E o \in SaveOutcomes :
          /\ history_file' = SaveFile(<<>>, history_file, o)
          /\ write_failed' = (write_failed \/ o # "ok")
          /\ last' = [op |-> "clear", saves |-> 1, result |-> o]

\* HistoryManager.save called on its own
HistorySave ==
    /\ UNCHANGED <<history, adds, now>>
    /\ \E o \in SaveOutcomes :
          /\ history_file' = SaveFile(history, history_file, o)
          /\ write_failed' = (write_failed \/ o # "ok")
          /\ last' = [op |-> "save", saves |-> 1, result |-> o]

\* HistoryManager.__init__ at a process start
HistoryInit(file) ==
    /\ history_file = file
    /\ history = Load(file)
    /\ now = 0
    /\ adds = 0
    /\ write_failed = FALSE
    /\ last = [op |-> "load", saves |-> 0, result |-> "none"]

\* the process restarts and constructs the HistoryManager again
HistoryRestart ==
    /\ history' = Load(history_file)
    /\ adds' = 0
    /\ last' = [op |-> "load", saves |-> 0, result |-> "none"]
    /\ UNCHANGED <<history_file, now, write_failed>>

(***************************************************************************)
(* Latency profiler (src/src/utils.py Profiler).  perf_counter readings    *)
(* and durations are in whole milliseconds.                                *)
(***************************************************************************)
\* time a timed call may take, in milliseconds
Elapsed == {0, 300}

\* Profiler.__init__
ProfilerInit ==
    /\ perf = 0
    /\ starts = <<>>
    /\ times = <<>>
    /\ plast = [op |-> "init", name |-> "", ret |-> 0]
    /\ report_out = {}

\* dict.get(key, default)
Get(d, key, default) == IF key \in DOMAIN d THEN d[key] ELSE default

\* dict[key] = value
Put(d, key, value) == [k \in DOMAIN d \cup {key} |-> IF k = key THEN value ELSE d[k]]

\* Profiler.start(name) at perf_counter reading t: the new _starts
ProfilerStart(st, name, t) == Put(st, name, t)

\* Profiler.stop(name) at perf_counter reading t: the new times
ProfilerStop(st, tm, name, t) ==
    IF name \in DOMAIN st THEN Put(tm, name, t - st[name]) ELSE tm

\* the grade with 600 ms still a warning
GradeInclusive(ms) ==
    IF ms < 300 THEN "good" ELSE IF ms <= 600 THEN "warning" ELSE "poor"

\* utils.py:39 the grade of a duration
Grade(ms) == IF ms < 300 THEN "good" ELSE IF ms < 600 THEN "warning" ELSE "poor"

\* Profiler.report: one logged line per recorded duration (the lines are
\* kept as a set, their order is the insertion order of the dict)
ProfilerReport(tm) ==
    {[name |-> n, ms |-> tm[n], grade |-> Grade(tm[n])] : n \in DOMAIN tm}

\* names of timed sections (routes.py:144, :216)
TimerNames == {"stt", "llm_ttft"}

\* start(name) as a call of its own, some time after the previous call
ProfilerStartCall(name) ==
    /\ \E e \in Elapsed :
          /\ perf + e <= MaxClock
          /\ perf' = perf + e
          /\ starts' = ProfilerStart(starts, name, perf + e)
    /\ times' = times
    /\ plast' = [op |-> "start", name |-> name, ret |-> 0]
    /\ report_out' = report_out

\* stop(name) as a call of its own; ret is its return value
ProfilerStopCall(name) ==
    /\ \E e \in Elapsed :
          /\ perf + e <= MaxClock
          /\ perf' = perf + e
          /\ times' = ProfilerStop(starts, times, name, perf + e)
    /\ starts' = starts
    /\ plast' = [op |-> "stop", name |-> name, ret |-> Get(times', name, 0)]
    /\ report_out' = report_out

\* reset() clearing the starts and keeping the durations
ProfilerResetStartsOnly ==
    /\ times' = times
    /\ starts' = <<>>
    /\ perf' = perf
    /\ plast' = [op |-> "reset", name |-> "", ret |-> 0]
    /\ report_out' = report_out

\* Profiler.reset
ProfilerReset ==
    /\ times' = <<>>
    /\ starts' = <<>>
    /\ perf' = perf
    /\ plast' = [op |-> "reset", name |-> "", ret |-> 0]
    /\ report_out' = report_out

\* report() as a call of its own
ProfilerReportCall ==
    /\ report_out' = ProfilerReport(times)
    /\ plast' = [op |-> "report", name |-> "", ret |-> 0]
    /\ UNCHANGED <<perf, starts, times>>

(***************************************************************************)
(* Settings read by the chat turn (src/src/config.py).                     *)
(***************************************************************************)
\* config.py:38-57 (fractions are kept as their decimal text)
DEFAULT_SETTINGS ==
    [temperature |-> "0.7", topP |-> "0.9", topK |-> 40, maxTokens |-> 256,
     repeatPenalty |-> "1.1", contextWindow |-> 4096, beamSize |-> 1,
     vadFilter |-> TRUE, vadThreshold |-> 300, sampleRate |-> 24000,
     voice |-> "en_0", soundEffects |-> TRUE, inputDevice |-> "",
     outputDevice |-> ""]

\* the keys of the default schema
DefaultKeys == DOMAIN DEFAULT_SETTINGS

\* {**a, **b}
Merge(a, b) ==
    [k \in DOMAIN a \cup DOMAIN b |-> IF k \in DOMAIN b THEN b[k] ELSE a[k]]

\* no data/settings.json
NoSettingsFile == [state |-> "absent", data |-> <<>>]

\* states of data/settings.json at start-up: absent, unreadable, empty,
\* partial, and one written by a version with another schema
InitialSettingsFiles ==
    {NoSettingsFile,
     [state |-> "corrupt", data |-> <<>>],
     [state |-> "ok", data |-> <<>>],
     [state |-> "ok", data |-> [voice |-> "en_1"]],
     [state |-> "ok", data |-> [foo |-> 7, topK |-> 50]]}

\* _load() dropping the keys that are not in the default schema
SettingsLoadKnown(file) ==
    IF file.state = "ok"
    THEN [k \in DefaultKeys |->
             IF k \in DOMAIN file.data THEN file.data[k] ELSE DEFAULT_SETTINGS[k]]
    ELSE DEFAULT_SETTINGS

\* SettingsManager._load
SettingsLoad(file) ==
    IF file.state = "ok" THEN Merge(DEFAULT_SETTINGS, file.data)
    ELSE DEFAULT_SETTINGS

\* SettingsManager.save: the file after save() with the given outcome
SettingsSaveFile(st, file, outcome) ==
    CASE outcome = "ok" -> [state |-> "ok", data |-> st]
      [] outcome = "open_failed" -> file
      [] OTHER -> [state |-> "corrupt", data |-> <<>>]

\* SettingsManager.__init__ at a process start
SettingsInit(file) ==
    /\ settings_file = file
    /\ settings = SettingsLoad(file)
    /\ slast = [op |-> "load", saves |-> 0, result |-> "none", request |-> <<>>]

\* the process restarts and constructs the SettingsManager again
SettingsRestart ==
    /\ settings' = SettingsLoad(settings_file)
    /\ settings_file' = settings_file
    /\ slast' = [op |-> "load", saves |-> 0, result |-> "none", request |-> <<>>]

\* SettingsManager.all
SettingsAll == settings

\* SettingsManager.set(key, value)
SettingsSet(key, value) ==
    /\ settings' = Put(settings, key, value)
    /\ settings_file' = settings_file
    /\ slast' = [op |-> "set", saves |-> 0, result |-> "none", request |-> <<>>]

\* the mapping after update() applied every key of the request
UpdatedUnfiltered(st, updates) == Merge(st, updates)

\* config.py:101-103 the mapping after the loop of update()
Updated(st, updates) ==
    [k \in DOMAIN st \cup (DOMAIN updates \cap DefaultKeys) |->
        IF k \in DOMAIN updates \cap DefaultKeys THEN updates[k] ELSE st[k]]

\* SettingsManager.update(updates), called by POST /api/settings
SettingsUpdate(updates) ==
    /\ settings' = Updated(settings, updates)
    /\ \E o \in SaveOutcomes :
          /\ settings_file' = SettingsSaveFile(settings', settings_file, o)
          /\ slast' = [op |-> "update", saves |-> 1, result |-> o,
                       request |-> updates]

\* SettingsManager.reset
SettingsReset ==
    /\ settings' = DEFAULT_SETTINGS
    /\ \E o \in SaveOutcomes :
          /\ settings_file' = SettingsSaveFile(settings', settings_file, o)
          /\ slast' = [op |-> "reset", saves |-> 1, result |-> o,
                       request |-> <<>>]

\* SettingsManager.save called on its own
SettingsSave ==
    /\ settings' = settings
    /\ \E o \in SaveOutcomes :
          /\ settings_file' = SettingsSaveFile(settings, settings_file, o)
          /\ slast' = [op |-> "save", saves |-> 1, result |-> o,
                       request |-> <<>>]

\* bodies of POST /api/settings
UpdateRequests ==
    {<<>>,
     [foo |-> 1],
     [voice |-> "en_1"],
     [foo |-> 1, topK |-> 50],
     [topK |-> 40, sampleRate |-> 48000]}

\* arguments of set(key, value)
SetRequests == {<<"voice", "en_0">>, <<"foo", 1>>}

(***************************************************************************)
(* The knowledge base (src/src/rag.py SimpleRAG and the knowledge          *)
(* endpoints of src/src/routes.py).  A file name, a file text, a query and *)
(* a retrieved context are sequences of one-character strings.            *)
(***************************************************************************)
\* characters matched by \w among the characters in use
WordChars ==
    {"a", "b", "c", "d", "e", "f", "g", "h", "i", "j", "k", "l", "m", "n",
     "o", "p", "q", "r", "s", "t", "u", "v", "w", "x", "y", "z", "C", "D",
     "O", "G", "0", "1", "2", "3", "4", "5", "6", "7", "8", "9", "_"}

\* str.lower() on one character of the characters in use
Lower(ch) ==
    CASE ch = "C" -> "c" [] ch = "D" -> "d" [] ch = "O" -> "o"
      [] ch = "G" -> "g" [] OTHER -> ch

\* \w{4,} in place of \w{3,}
IsKeywordFour(word) == Len(word) >= 4

\* \b\w{3,}\b matches a maximal run of word characters of this length
IsKeyword(word) == Len(word) >= 3

\* the words of s from position i on, cur being the word characters read
\* since the last non-word character
RECURSIVE WordsFrom(_, _, _)
WordsFrom(s, i, cur) ==
    IF i > Len(s) THEN (IF IsKeyword(cur) THEN {cur} ELSE {})
    ELSE IF s[i] \in WordChars THEN WordsFrom(s, i + 1, Append(cur, s[i]))
    ELSE (IF IsKeyword(cur) THEN {cur} ELSE {}) \cup WordsFrom(s, i + 1, <<>>)

\* rag.py:49 and :58  set(re.findall(r'\b\w{3,}\b', text.lower()))
Keywords(s) == WordsFrom([i \in 1..Len(s) |-> Lower(s[i])], 1, <<>>)

\* the lookahead (?=#{1,3} ) at position i of s
IsHeadingAt(s, i) ==
    \E k \in 1..3 :
       /\ i + k <= Len(s)
       /\ \A j \in 0..(k - 1) : s[i + j] = "#"
       /\ s[i + k] = " "

RECURSIVE SplitFrom(_, _, _)
SplitFrom(s, i, cur) ==
    IF i > Len(s) THEN <<cur>>
    ELSE IF s[i] = "\n" /\ IsHeadingAt(s, i + 1)
         THEN <<cur>> \o SplitFrom(s, i + 1, <<>>)
         ELSE SplitFrom(s, i + 1, Append(cur, s[i]))

\* rag.py:42  re.split(r'\n(?=#{1,3} )', content)
SplitSections(content) == SplitFrom(content, 1, <<>>)

\* rag.py:44  the trimmed sections of a file, in order
TrimmedSections(content) ==
    LET sections == SplitSections(content)
    IN  [i \in 1..Len(sections) |-> Strip(sections[i])]

\* rag.py:46-50  the chunk made of a kept section
Chunk(section, source) ==
    [content |-> section, source |-> source, keywords |-> Keywords(section)]

\* a test keeping the sections of 20 characters too
KeptFromTwenty(section) == Len(section) >= 20

\* rag.py:45  if len(section) > 20
Kept(section) == Len(section) > 20

RECURSIVE ChunksFrom(_, _, _)
\* rag.py:43-50  the loop of _split_content from section i on
ChunksFrom(sections, i, source) ==
    IF i > Len(sections) THEN <<>>
    ELSE (IF Kept(sections[i]) THEN <<Chunk(sections[i], source)>> ELSE <<>>)
         \o ChunksFrom(sections, i + 1, source)

\* SimpleRAG._split_content
SplitContent(content, source) == ChunksFrom(TrimmedSections(content), 1, source)

\* str.endswith(suffix)
HasSuffix(s, suffix) ==
    /\ Len(s) >= Len(suffix)
    /\ SubSeq(s, Len(s) - Len(suffix) + 1, Len(s)) = suffix

DotMd == <<".", "m", "d">>

DotTxt == <<".", "t", "x", "t">>

\* the orders in which a loop can visit the members of S
Orders(S) ==
    {f \in [1..Cardinality(S) -> S] :
        \A i, j \in 1..Cardinality(S) : i # j => f[i] # f[j]}

\* rag.py:28-29  the orders in which load_documents visits the files: the
\* *.md files in the order glob yields them, then the *.txt files
GlobOrders(files) ==
    {md \o txt :
        md \in Orders({n \in DOMAIN files : HasSuffix(n, DotMd)}),
        txt \in Orders({n \in DOMAIN files : HasSuffix(n, DotTxt)})}

\* a file that read_text reads, and one on which it raises
TextFile(text) == [readable |-> TRUE, text |-> text]

UnreadableFile == [readable |-> FALSE, text |-> <<>>]

\* rag.py:30-35  the chunks one file adds
FileChunks(files, name) ==
    IF files[name].readable THEN SplitContent(files[name].text, name) ELSE <<>>

RECURSIVE Loaded(_, _)
\* rag.py:28-35  the chunks of the files visited in the given order
Loaded(files, order) ==
    IF order = <<>> THEN <<>>
    ELSE FileChunks(files, Head(order)) \o Loaded(files, Tail(order))

\* the collections load_documents can build from a directory
Collections(dir) ==
    IF dir.exists THEN {Loaded(dir.files, o) : o \in GlobOrders(dir.files)}
    ELSE {<<>>}

\* rag.py:23-26  the directory after load_documents
Scanned(dir) == [dir EXCEPT !.exists = TRUE]

\* rag.py:63  the overlap of a chunk with the keywords of the query
Overlap(doc, query_keywords) == Cardinality(query_keywords \cap doc.keywords)

\* a test scoring every chunk
MatchesAlways(doc, query_keywords) == Overlap(doc, query_keywords) >= 0

\* rag.py:64  if overlap > 0
Matches(doc, query_keywords) == Overlap(doc, query_keywords) > 0

RECURSIVE ScoredFrom(_, _, _)
\* rag.py:61-65  the positions of the chunks with an overlap, in load order
ScoredFrom(docs, i, query_keywords) ==
    IF i > Len(docs) THEN <<>>
    ELSE (IF Matches(docs[i], query_keywords) THEN <<i>> ELSE <<>>)
         \o ScoredFrom(docs, i + 1, query_keywords)

\* the place of a new element in a list sorted by descending score, before
\* the elements of an equal score
InsertFirst(sorted, x, score) ==
    LET before == {i \in 1..Len(sorted) : score[sorted[i]] > score[x]}
        n == Cardinality(before)
    IN  SubSeq(sorted, 1, n) \o <<x>> \o SubSeq(sorted, n + 1, Len(sorted))

\* the place of a new element in a list sorted by descending score, after
\* the elements of an equal score
Insert(sorted, x, score) ==
    LET before == {i \in 1..Len(sorted) : score[sorted[i]] >= score[x]}
        n == Cardinality(before)
    IN  SubSeq(sorted, 1, n) \o <<x>> \o SubSeq(sorted, n + 1, Len(sorted))

RECURSIVE SortDescending(_, _)
\* rag.py:67  scored.sort(key=lambda x: x[0], reverse=True), a stable sort
SortDescending(scored, score) ==
    IF scored = <<>> THEN <<>>
    ELSE Insert(SortDescending(SubSeq(scored, 1, Len(scored) - 1), score),
                scored[Len(scored)], score)

\* a slice s[:n] for n >= 0
Prefix(s, n) == SubSeq(s, 1, IF n < Len(s) THEN n ELSE Len(s))

\* rag.py:54-68  top_docs, as the positions of the chunks in docs
TopDocs(docs, query, top_k) ==
    IF docs = <<>> THEN <<>>
    ELSE LET query_keywords == Keywords(query)
             score == [i \in 1..Len(docs) |-> Overlap(docs[i], query_keywords)]
         IN  Prefix(SortDescending(ScoredFrom(docs, 1, query_keywords), score),
                    top_k)

FromText == <<"[", "F", "r", "o", "m", " ">>

\* rag.py:74  f"[From {doc['source']}]\n{doc['content'][:500]}"
ContextPart(doc) ==
    FromText \o doc.source \o <<"]", "\n">> \o Prefix(doc.content, 500)

RECURSIVE JoinParts(_)
\* rag.py:76  "\n\n".join(context_parts)
JoinParts(parts) ==
    IF parts = <<>> THEN <<>>
    ELSE IF Len(parts) = 1 THEN parts[1]
    ELSE parts[1] \o <<"\n", "\n">> \o JoinParts(Tail(parts))

\* SimpleRAG.retrieve
Retrieve(docs, query, top_k) ==
    LET top == TopDocs(docs, query, top_k)
    IN  JoinParts([i \in 1..Len(top) |-> ContextPart(docs[top[i]])])

\* a section sharing cat, dog and emu with the query CatDogEmu
ZooSection ==
    <<"#", " ", "c", "a", "t", " ", "d", "o", "g", " ", "e", "m", "u", " ",
      "i", "n", " ", "t", "h", "e", " ", "z", "o", "o">>

\* a section sharing cat with the query CatDogEmu
NapSection ==
    <<"#", "#", " ", "c", "a", "t", " ", "n", "a", "p", "s", " ", "a", "l",
      "l", " ", "d", "a", "y", " ", "l", "o", "n", "g">>

\* a section sharing cat and dog with the query CatDogEmu
HomeSection ==
    <<"#", "#", "#", " ", "C", "a", "t", " ", "a", "n", "d", " ", "D", "o",
      "g", " ", "a", "t", " ", "h", "o", "m", "e">>

\* a section of 19 characters
Owl19 ==
    <<"#", " ", "o", "w", "l", " ", "s", "a", "t", " ", "o", "n", " ", "a",
      " ", "t", "w", "i", "g">>

\* a section of 20 characters
Owl20 ==
    <<"#", " ", "o", "w", "l", " ", "s", "a", "t", " ", "o", "n", " ", "a",
      " ", "t", "w", "i", "g", ".">>

\* a section of 21 characters
Owl21 ==
    <<"#", " ", "o", "w", "l", " ", "s", "a", "t", " ", "o", "n", " ", "t",
      "h", "e", " ", "t", "w", "i", "g">>

\* a section of 23 characters without a word of three characters
LettersSection ==
    <<"#", " ", "a", " ", "b", " ", "c", " ", "d", " ", "e", " ", "f", " ",
      "g", " ", "h", " ", "i", " ", "j", " ", "k">>

\* a query with the keywords cat, dog and emu
CatDogEmu ==
    <<"c", "a", "t", " ", "D", "O", "G", " ", "e", "m", "u">>

\* a query with the keyword owl
OwlQuery ==
    <<"a", "n", " ", "o", "w", "l", "?">>

\* a query whose keyword is in no section
YakQuery ==
    <<"y", "a", "k", " ", "y", "a", "k">>

\* a query without a word of three characters
NoWordQuery ==
    <<"i", "s", " ", "i", "t", " ", "o", "k">>

AMd == <<"a", ".", "m", "d">>

BMd == <<"b", ".", "m", "d">>

CTxt == <<"c", ".", "t", "x", "t">>

\* the texts written to knowledge files
OwlFile ==
    <<" ", " ">> \o Owl20 \o <<" ", "\n">> \o Owl19 \o <<"\n">> \o Owl21
    \o <<"\n", "\n">>

FileTexts == {ZooSection, NapSection, HomeSection, OwlFile, LettersSection}

\* the queries and top_k values passed to retrieve
Queries == {CatDogEmu, OwlQuery, YakQuery, NoWordQuery}

TopKs == {0, 1, 2}

\* models.py:32  the knowledge directory SimpleRAG is constructed on:
\* missing, empty, or holding files (one of them not readable as UTF-8)
InitialDirs ==
    {[exists |-> FALSE, files |-> <<>>],
     [exists |-> TRUE, files |-> <<>>],
     [exists |-> TRUE, files |-> (AMd :> TextFile(ZooSection))],
     [exists |-> TRUE,
      files |-> (AMd :> TextFile(NapSection)) @@ (BMd :> UnreadableFile)
                @@ (CTxt :> TextFile(HomeSection))]}

\* an existing knowledge directory without files
NoKnowledge == [exists |-> TRUE, files |-> <<>>]

\* the record of a call on the knowledge base and of its response
Call(op, name, status, count, reloads) ==
    [op |-> op, name |-> name, status |-> status, count |-> count,
     reloads |-> reloads, query |-> <<>>, top_k |-> 0, top |-> <<>>,
     result |-> <<>>, seen |-> <<>>]

\* the threads serving requests: the event loop and a worker of the pool
Threads == {"loop", "pool"}

Idle == [pc |-> "idle", op |-> "none", name |-> <<>>, pending |-> <<>>]

\* SimpleRAG.__init__ on a knowledge directory
RagInit(dir) ==
    /\ kb = Scanned(dir)
    /\ documents \in Collections(dir)
    /\ klast = Call("load", <<>>, "ok", 0, 1)
    /\ task = [t \in Threads |-> Idle]
    /\ dirs = {Scanned(dir)}
    /\ nreq = 0

\* SimpleRAG.retrieve(query, top_k) on the loaded chunks
RetrieveCall(query, top_k) ==
    /\ klast' = [Call("retrieve", <<>>, "ok", 0, 0) EXCEPT
                    !.query = query, !.top_k = top_k,
                    !.top = TopDocs(documents, query, top_k),
                    !.result = Retrieve(documents, query, top_k),
                    !.seen = documents]
    /\ UNCHANGED <<kb, documents, task, dirs, nreq>>

\* routes.py:42-47  reload_knowledge, run on its own
ReloadKnowledge ==
    /\ \E c \in Collections(kb) :
          /\ documents' = c
          /\ klast' = Call("reload", <<>>, "ok", Len(c), 1)
    /\ UNCHANGED <<kb, task, dirs, nreq>>

\* routes.py:78-87  the file name a create request writes to
\* (re.sub(r'[^\w\-.]', '_', filename) after the default extension)
KnowledgeName(name) ==
    LET filename == Strip(name)
        named == IF HasSuffix(filename, DotMd) \/ HasSuffix(filename, DotTxt)
                 THEN filename ELSE filename \o DotMd
    IN  [i \in 1..Len(named) |->
            IF named[i] \in WordChars \cup {"-", "."} THEN named[i] ELSE "_"]

\* the directory after write_text
Written(dir, name, content) ==
    [dir EXCEPT !.files = Put(dir.files, KnowledgeName(name), TextFile(content))]

\* the directory after unlink
Unlinked(dir, filename) ==
    [dir EXCEPT !.files = [n \in DOMAIN dir.files \ {filename} |-> dir.files[n]]]

\* routes.py:75-97  create_knowledge_file, run on its own
CreateKnowledgeFile(data) ==
    IF Strip(data.name) = <<>>
    THEN /\ klast' = Call("create", <<>>, "error", 0, 0)
         /\ UNCHANGED <<kb, documents, task, dirs, nreq>>
    ELSE /\ kb' = Written(kb, data.name, data.content)
         /\ \E c \in Collections(kb') :
               /\ documents' = c
               /\ klast' = Call("create", KnowledgeName(data.name), "ok",
                                Len(c), 1)
         /\ dirs' = {kb'}
         /\ UNCHANGED <<task, nreq>>

\* routes.py:99-112  delete_knowledge_file, run on its own
DeleteKnowledgeFile(filename) ==
    IF filename \in DOMAIN kb.files
    THEN /\ kb' = Unlinked(kb, filename)
         /\ \E c \in Collections(kb') :
               /\ documents' = c
               /\ klast' = Call("delete", filename, "ok", Len(c), 1)
         /\ dirs' = {kb'}
         /\ UNCHANGED <<task, nreq>>
    ELSE /\ klast' = Call("delete", filename, "error", 0, 0)
         /\ UNCHANGED <<kb, documents, task, dirs, nreq>>

(***************************************************************************)
(* Knowledge-base requests step by step.  reload_knowledge and             *)
(* delete_knowledge_file are def endpoints and run in worker threads of    *)
(* the pool; create_knowledge_file and the chat turn, which calls          *)
(* rag.retrieve, run on the event loop.  A thread switch can happen        *)
(* between any two steps below.                                            *)
(***************************************************************************)
\* the thread is between requests and may start one more
Free(t) == task[t].pc = "idle" /\ nreq < MaxRequests

\* routes.py:42-46  reload_knowledge up to its call of rag.reload()
BeginReload(t) ==
    /\ t = "pool" /\ Free(t)
    /\ task' = [task EXCEPT ![t] = [Idle EXCEPT !.pc = "clear", !.op = "reload"]]
    /\ nreq' = nreq + 1
    /\ UNCHANGED <<kb, documents, klast, dirs>>

\* routes.py:99-109  delete_knowledge_file up to its call of rag.reload(),
\* or its whole run when the file is missing
BeginDelete(t, filename) ==
    /\ t = "pool" /\ Free(t)
    /\ nreq' = nreq + 1
    /\ IF filename \in DOMAIN kb.files
       THEN /\ kb' = Unlinked(kb, filename)
            /\ dirs' = dirs \cup {kb'}
            /\ task' = [task EXCEPT ![t] = [Idle EXCEPT !.pc = "clear",
                                                     !.op = "delete",
                                                     !.name = filename]]
            /\ UNCHANGED <<documents, klast>>
       ELSE /\ klast' = Call("delete", filename, "error", 0, 0)
            /\ UNCHANGED <<kb, documents, task, dirs>>

\* routes.py:75-95  create_knowledge_file up to its call of rag.reload(),
\* or its whole run when the file name is empty
BeginCreate(t, data) ==
    /\ t = "loop" /\ Free(t)
    /\ nreq' = nreq + 1
    /\ IF Strip(data.name) = <<>>
       THEN /\ klast' = Call("create", <<>>, "error", 0, 0)
            /\ UNCHANGED <<kb, documents, task, dirs>>
       ELSE /\ kb' = Written(kb, data.name, data.content)
            /\ dirs' = dirs \cup {kb'}
            /\ task' = [task EXCEPT ![t] =
                           [Idle EXCEPT !.pc = "clear", !.op = "create",
                                        !.name = KnowledgeName(data.name)]]
            /\ UNCHANGED <<documents, klast>>

\* rag.py:22-29  self.documents = [] and the listing of the *.md files
ClearDocuments(t) ==
    /\ task[t].pc = "clear"
    /\ documents' = <<>>
    /\ \E order \in Orders({n \in DOMAIN kb.files : HasSuffix(n, DotMd)}) :
          task' = [task EXCEPT ![t].pc = "md", ![t].pending = order]
    /\ UNCHANGED <<kb, klast, dirs, nreq>>

\* rag.py:30-35  one file read, split and added to self.documents as it is
\* now; a file unlinked since the listing raises and is skipped
LoadFile(t) ==
    /\ task[t].pc \in {"md", "txt"} /\ task[t].pending # <<>>
    /\ LET name == Head(task[t].pending)
       IN  documents' = documents \o
              (IF name \in DOMAIN kb.files THEN FileChunks(kb.files, name)
               ELSE <<>>)
    /\ task' = [task EXCEPT ![t].pending = Tail(task[t].pending)]
    /\ UNCHANGED <<kb, klast, dirs, nreq>>

\* rag.py:28-29  the listing of the *.txt files once the *.md files are done
GlobTxt(t) ==
    /\ task[t].pc = "md" /\ task[t].pending = <<>>
    /\ \E order \in Orders({n \in DOMAIN kb.files : HasSuffix(n, DotTxt)}) :
          task' = [task EXCEPT ![t].pc = "txt", ![t].pending = order]
    /\ UNCHANGED <<kb, documents, klast, dirs, nreq>>

\* rag.py:37  load_documents returns
EndLoad(t) ==
    /\ task[t].pc = "txt" /\ task[t].pending = <<>>
    /\ task' = [task EXCEPT ![t].pc = "respond"]
    /\ UNCHANGED <<kb, documents, klast, dirs, nreq>>

\* routes.py:47, :97, :111  the response with len(rag.documents)
Respond(t) ==
    /\ task[t].pc = "respond"
    /\ klast' = Call(task[t].op, task[t].name, "ok", Len(documents), 1)
    /\ task' = [task EXCEPT ![t] = Idle]
    /\ UNCHANGED <<kb, documents, dirs, nreq>>

\* routes.py:192  a chat turn calls rag.retrieve on the event loop, reading
\* the collection as it is at that moment
RetrieveDuring(t, query) ==
    /\ t = "loop" /\ task[t].pc = "idle"
    /\ RetrieveCall(query, 2)

(***************************************************************************)
(* The chat turn (src/src/routes.py chat).                                 *)
(***************************************************************************)
\* websocket connections
Conns == {1, 2}

\* the user text "hi"
Hi == <<"h", "i">>

\* start messages a client sends: {text, voice?, settings?}
Requests ==
    {[text |-> Hi],
     [text |-> Hi, voice |-> "en_1", settings |-> [sampleRate |-> 48000]],
     [text |-> OwlQuery],
     [text |-> <<>>],
     [voice |-> "en_1"],
     <<>>}

\* tokens the language model emits in a free turn
Tokens ==
    {<<"O", "k", ",">>, <<"T", "h", "a", "n", "k", "s">>, <<" ">>,
     <<"[">>, <<"]">>, <<"\n">>}

\* the stream spelling "Hello, how are you? " one character per token
HelloStream ==
    <<<<"H">>, <<"e">>, <<"l">>, <<"l">>, <<"o">>, <<",">>, <<" ">>,
      <<"h">>, <<"o">>, <<"w">>, <<" ">>, <<"a">>, <<"r">>, <<"e">>, <<" ">>,
      <<"y">>, <<"o">>, <<"u">>, <<"?">>, <<" ">>>>

\* the stream spelling "Good, bye."
ByeStream ==
    <<<<"G", "o", "o", "d">>, <<",">>, <<" ">>, <<"b", "y", "e">>, <<".">>>>

\* the fixed token streams; script 0 is the free turn
Scripts == <<HelloStream, ByeStream>>

\* tts.apply_tts(text, speaker, sample_rate): the tensor of that utterance
ApplyTts(text, speaker, rate) ==
    [text |-> text, speaker |-> speaker, sample_rate |-> rate]

(***************************************************************************)
(* Audio encoder (src/src/utils.py audio_to_wav_bytes).  An amplitude is   *)
(* a float32 counted in quarters of full scale: 4 is 1.0, -5 is -1.25.     *)
(* The products with 32767 are exact in float32.                           *)
(***************************************************************************)
\* amplitudes of the tensor; those beyond full scale do not fit in int16
Amplitudes == {-5, -4, -1, 0, 1, 4, 5}

\* what a build does when astype(np.int16) is given a value out of range
\* (undefined in C): keep the low 16 bits, clamp, or give the minimum
Casts == {"wrap", "saturate", "min"}

\* x / d rounded toward zero
Trunc(x, d) == IF x >= 0 THEN x \div d ELSE -((-x) \div d)

\* the product scaled by 32768 instead of 32767
ScaledFullRange(q) == Trunc(q * 32768, 4)

\* utils.py:56 audio_np * 32767, fraction dropped by the cast
Scaled(q) == Trunc(q * 32767, 4)

\* utils.py:56 astype(np.int16) of one element
CastInt16(v, cast) ==
    IF -32768 <= v /\ v <= 32767 THEN v
    ELSE CASE cast = "wrap" -> ((v + 32768) % 65536) - 32768
           [] cast = "saturate" -> IF v > 0 THEN 32767 ELSE -32768
           [] OTHER -> -32768

\* utils.py:56 audio_int16
AudioInt16(samples, cast) ==
    [i \in 1..Len(samples) |-> CastInt16(Scaled(samples[i]), cast)]

\* v in n little-endian bytes, two's complement
LittleEndian(v, n) ==
    LET u == IF v < 0 THEN v + 256 ^ n ELSE v
    IN  [i \in 1..n |-> (u \div (256 ^ (i - 1))) % 256]

RECURSIVE ToBytes(_)
\* utils.py:63 audio_int16.tobytes()
ToBytes(ints) ==
    IF ints = <<>> THEN <<>>
    ELSE LittleEndian(Head(ints), 2) \o ToBytes(Tail(ints))

\* utils.py:59-63 the RIFF header wave writes for mono 16-bit PCM frames
WaveHeader(rate, datalen) ==
    <<82, 73, 70, 70>> \o LittleEndian(36 + datalen, 4) \o <<87, 65, 86, 69>>
    \o <<102, 109, 116, 32>> \o LittleEndian(16, 4) \o LittleEndian(1, 2)
    \o LittleEndian(1, 2) \o LittleEndian(rate, 4)
    \o LittleEndian(1 * rate * 2, 4) \o LittleEndian(1 * 2, 2)
    \o LittleEndian(2 * 8, 2) \o <<100, 97, 116, 97>>
    \o LittleEndian(datalen, 4)

\* utils.py:53-64 audio_to_wav_bytes, byte by byte
WavBytes(samples, rate, cast) ==
    LET frames == ToBytes(AudioInt16(samples, cast))
    IN  WaveHeader(rate, Len(frames)) \o frames

\* no audio_to_wav_bytes call yet, on a build with the given cast
NoWav(cast) == [samples |-> <<>>, rate |-> 0, bytes |-> <<>>, calls |-> 0, cast |-> cast]

\* the encoder of a process start
AudioInit(cast) == wav = NoWav(cast)

\* tensors handed to the encoder
Tensors == UNION {[1..n -> Amplitudes] : n \in 0..MaxSamples}

\* config.py:51 and the rate a client may ask for
SampleRates == {24000, 48000}

\* audio_to_wav_bytes(audio_tensor, sample_rate) as a call of its own
AudioToWavBytesCall(samples, rate) ==
    /\ wav.calls < MaxCalls
    /\ wav' = [wav EXCEPT !.samples = samples, !.rate = rate, !.calls = @ + 1,
                          !.bytes = WavBytes(samples, rate, wav.cast)]

\* utils.py:53-64 the WAV container around the encoded tensor
AudioToWavBytes(tensor, rate) ==
    [nchannels |-> 1, sampwidth |-> 2, framerate |-> rate, frames |-> tensor]

\* websocket.send_json(body) as the client receives it
JsonMsg(body) == [kind |-> "json", body |-> body]

\* websocket.send_bytes(body) as the client receives it
BytesMsg(body) == [kind |-> "bytes", body |-> body]

\* routes.py:249 and :270 the text event of a flush
TextChunk(content) == JsonMsg([type |-> "text_chunk", content |-> content])

\* routes.py:275
DoneMsg == JsonMsg([type |-> "done"])

\* positions at which the handler is suspended in an await, or has ended
AwaitPoints ==
    {"idle", "receive", "send_text", "send_audio", "send_done",
     "aborted", "failed", "finished"}

\* connection c is the coroutine the event loop runs: every other handler
\* waits in an await
Runs(c) ==
    /\ c \in active
    /\ \A d \in Conns \ {c} : pc[d] \in AwaitPoints

\* variables no step of a chat turn writes
envVars == <<settings, setVars, plast, wavVars, kbVars, active, script>>

\* variables of the start message
reqVars == <<user_text, voice, sample_rate, prompt>>

\* config.py:188 the system prompt, one piece of text
SYSTEM_PROMPT == <<"You are MIDAS, a sentient digital assistant.">>

\* one closed segment of the chat template
Segment(role, text) ==
    <<"<|im_start|>", role, "\n">> \o text \o <<"<|im_end|>", "\n">>

\* routes.py:194-198 the system prompt, with the retrieved context if any
SystemPrompt(context) ==
    IF context # <<>>
    THEN SYSTEM_PROMPT \o <<"\n\nRelevant context:\n">> \o context
    ELSE SYSTEM_PROMPT

\* routes.py:206-210 an exchange as its user and assistant segments; a side
\* that is empty or missing is left out
RenderExchange(e) ==
    (IF e.user # <<>> THEN Segment("user", e.user) ELSE <<>>)
    \o (IF e.assistant # <<>> THEN Segment("assistant", e.assistant) ELSE <<>>)

RECURSIVE RenderHistory(_)
\* routes.py:205-210 the loop over the recent exchanges
RenderHistory(h) ==
    IF h = <<>> THEN <<>>
    ELSE RenderExchange(Head(h)) \o RenderHistory(Tail(h))

\* routes.py:192-212 the prompt of a turn
BuildPrompt(text) ==
    Segment("system", SystemPrompt(Retrieve(documents, text, 2)))
    \o RenderHistory(HistoryGetRecent(10))
    \o Segment("user", text)
    \o <<"<|im_start|>", "assistant", "\n">>

\* the start message handled without the return after close
ReceiveNoReturn(c) ==
    /\ Runs(c) /\ pc[c] = "receive"
    /\ \E data \in Requests :
          LET text == Get(data, "text", <<>>)
              req_settings == Get(data, "settings", <<>>)
          IN
          /\ user_text' = [user_text EXCEPT ![c] = text]
          /\ voice' = [voice EXCEPT ![c] = Get(data, "voice", settings.voice)]
          /\ sample_rate' = [sample_rate EXCEPT ![c] =
                                Get(req_settings, "sampleRate", settings.sampleRate)]
          /\ closed' = [closed EXCEPT ![c] = (text = <<>>)]
          /\ prompt' = [prompt EXCEPT ![c] = BuildPrompt(text)]
          /\ starts' = ProfilerStart(starts, "llm_ttft", perf)
          /\ pc' = [pc EXCEPT ![c] = "generate"]
    /\ UNCHANGED <<envVars, report_out, histVars, perf, times, buffer, full_response,
                   clean, ntok, first_token, first_tts, final, audio, sent,
                   error, flushed, added>>

\* routes.py:174-232  the start message arrives; retrieval (routes.py:192)
\* writes nothing, the prompt (routes.py:200-212) feeds the language model
Receive(c) ==
    /\ Runs(c) /\ pc[c] = "receive"
    /\ \E data \in Requests :
          LET text == Get(data, "text", <<>>)
              req_settings == Get(data, "settings", <<>>)
          IN
          /\ user_text' = [user_text EXCEPT ![c] = text]
          /\ voice' = [voice EXCEPT ![c] = Get(data, "voice", settings.voice)]
          /\ sample_rate' = [sample_rate EXCEPT ![c] =
                                Get(req_settings, "sampleRate", settings.sampleRate)]
          /\ IF text = <<>>
             THEN /\ closed' = [closed EXCEPT ![c] = TRUE]
                  /\ pc' = [pc EXCEPT ![c] = "aborted"]
                  /\ prompt' = prompt
                  /\ starts' = starts
             ELSE /\ closed' = closed
                  /\ prompt' = [prompt EXCEPT ![c] = BuildPrompt(text)]
                  /\ starts' = ProfilerStart(starts, "llm_ttft", perf)
                  /\ pc' = [pc EXCEPT ![c] = "generate"]
    /\ UNCHANGED <<envVars, report_out, histVars, perf, times, buffer, full_response,
                   clean, ntok, first_token, first_tts, final, audio, sent,
                   error, flushed, added>>

\* the tokens the stream may yield next
NextTokens(c) ==
    IF script[c] = 0
    THEN IF ntok[c] < MaxTokens THEN Tokens ELSE {}
    ELSE IF ntok[c] < Len(Scripts[script[c]])
         THEN {Scripts[script[c]][ntok[c] + 1]} ELSE {}

\* the stream may end here
StreamMayEnd(c) ==
    IF script[c] = 0 THEN TRUE ELSE ntok[c] = Len(Scripts[script[c]])

\* routes.py:234-248 and :264  one iteration of the token loop; the wait
\* for the first token takes some time, measured by llm_ttft
NextToken(c) ==
    /\ Runs(c) /\ pc[c] = "generate"
    /\ IF first_token[c]
       THEN UNCHANGED <<perf, times>>
       ELSE \E e \in Elapsed :
               /\ perf' = perf + e
               /\ times' = ProfilerStop(starts, times, "llm_ttft", perf + e)
    /\ first_token' = [first_token EXCEPT ![c] = TRUE]
    /\ \E token \in NextTokens(c) :
          LET buf == buffer[c] \o token IN
          /\ full_response' = [full_response EXCEPT ![c] = @ \o token]
          /\ ntok' = [ntok EXCEPT ![c] = @ + 1]
          /\ IF FlushCond(buf)
             THEN /\ clean' = [clean EXCEPT ![c] = Clean(buf)]
                  /\ IF Clean(buf) # <<>>
                     THEN /\ buffer' = [buffer EXCEPT ![c] = buf]
                          /\ pc' = [pc EXCEPT ![c] = "send_text"]
                          /\ flushed' = flushed
                     ELSE /\ buffer' = [buffer EXCEPT ![c] = <<>>]
                          /\ pc' = pc
                          /\ flushed' = [flushed EXCEPT ![c] = Append(@, buf)]
             ELSE /\ buffer' = [buffer EXCEPT ![c] = buf]
                  /\ UNCHANGED <<clean, pc, flushed>>
    /\ UNCHANGED <<envVars, report_out, reqVars, histVars, starts, first_tts, final,
                   audio, sent, closed, error, added>>

\* the end of the stream without the flush of the remaining buffer
EndOfStreamNoFlush(c) ==
    /\ Runs(c) /\ pc[c] = "generate"
    /\ StreamMayEnd(c)
    /\ final' = [final EXCEPT ![c] = TRUE]
    /\ pc' = [pc EXCEPT ![c] = "send_done"]
    /\ UNCHANGED <<envVars, report_out, reqVars, histVars, profVars, buffer,
                   full_response, clean, ntok, first_token, first_tts, audio,
                   sent, closed, error, flushed, added>>

\* routes.py:266-269  the stream is exhausted
EndOfStream(c) ==
    /\ Runs(c) /\ pc[c] = "generate"
    /\ StreamMayEnd(c)
    /\ final' = [final EXCEPT ![c] = TRUE]
    /\ IF Strip(buffer[c]) # <<>>
       THEN /\ clean' = [clean EXCEPT ![c] = Clean(buffer[c])]
            /\ pc' = [pc EXCEPT ![c] =
                        IF Clean(buffer[c]) # <<>> THEN "send_text" ELSE "send_done"]
       ELSE /\ clean' = clean
            /\ pc' = [pc EXCEPT ![c] = "send_done"]
    /\ UNCHANGED <<envVars, report_out, reqVars, histVars, profVars, buffer,
                   full_response, ntok, first_token, first_tts, audio, sent,
                   closed, error, flushed, added>>

\* the text event sent from a clean text that the handlers share
SendTextShared(c) ==
    /\ Runs(c) /\ pc[c] = "send_text"
    /\ \E d \in active :
          sent' = [sent EXCEPT ![c] =
                     Append(@, TextChunk(IF final[c] THEN clean[d]
                                         ELSE clean[d] \o <<" ">>))]
    /\ starts' = IF ~final[c] /\ ~first_tts[c]
                 THEN ProfilerStart(starts, "tts_ttfs", perf) ELSE starts
    /\ pc' = [pc EXCEPT ![c] = "tts"]
    /\ UNCHANGED <<envVars, report_out, reqVars, histVars, perf, times, buffer,
                   full_response, clean, ntok, first_token, first_tts, final,
                   audio, closed, error, flushed, added>>

\* routes.py:249-252 and :270  the text event of the flush is sent; in the
\* loop the first synthesis is then timed
SendText(c) ==
    /\ Runs(c) /\ pc[c] = "send_text"
    /\ sent' = [sent EXCEPT ![c] =
                  Append(@, TextChunk(IF final[c] THEN clean[c]
                                      ELSE clean[c] \o <<" ">>))]
    /\ starts' = IF ~final[c] /\ ~first_tts[c]
                 THEN ProfilerStart(starts, "tts_ttfs", perf) ELSE starts
    /\ pc' = [pc EXCEPT ![c] = "tts"]
    /\ UNCHANGED <<envVars, report_out, reqVars, histVars, perf, times, buffer,
                   full_response, clean, ntok, first_token, first_tts, final,
                   audio, closed, error, flushed, added>>

\* the measurement of the first synthesis of the loop (routes.py:257-259)
TimeFirstTts(c) ==
    IF final[c] \/ first_tts[c]
    THEN UNCHANGED <<perf, times, first_tts>>
    ELSE /\ \E e \in Elapsed :
               /\ perf' = perf + e
               /\ times' = ProfilerStop(starts, times, "tts_ttfs", perf + e)
         /\ first_tts' = [first_tts EXCEPT ![c] = TRUE]

\* the synthesis fed with the raw buffer instead of the cleaned text
SynthesizeRaw(c) ==
    /\ Runs(c) /\ pc[c] = "tts"
    /\ audio' = [audio EXCEPT ![c] =
                   AudioToWavBytes(ApplyTts(buffer[c], voice[c], sample_rate[c]),
                                   sample_rate[c])]
    /\ TimeFirstTts(c)
    /\ pc' = [pc EXCEPT ![c] = "send_audio"]
    /\ UNCHANGED <<envVars, report_out, reqVars, histVars, starts, buffer, full_response,
                   clean, ntok, first_token, final, sent, closed, error,
                   flushed, added>>

\* routes.py:255-261 and :271-272  synthesis and encoding of the chunk
Synthesize(c) ==
    /\ Runs(c) /\ pc[c] = "tts"
    /\ audio' = [audio EXCEPT ![c] =
                   AudioToWavBytes(ApplyTts(clean[c], voice[c], sample_rate[c]),
                                   sample_rate[c])]
    /\ TimeFirstTts(c)
    /\ pc' = [pc EXCEPT ![c] = "send_audio"]
    /\ UNCHANGED <<envVars, report_out, reqVars, histVars, starts, buffer, full_response,
                   clean, ntok, first_token, final, sent, closed, error,
                   flushed, added>>

\* the audio of the flush is sent and the buffer is kept
SendAudioKeepsBuffer(c) ==
    /\ Runs(c) /\ pc[c] = "send_audio"
    /\ sent' = [sent EXCEPT ![c] = Append(@, BytesMsg(audio[c]))]
    /\ IF final[c]
       THEN /\ pc' = [pc EXCEPT ![c] = "send_done"]
            /\ UNCHANGED <<buffer, flushed>>
       ELSE /\ pc' = [pc EXCEPT ![c] = "generate"]
            /\ flushed' = [flushed EXCEPT ![c] = Append(@, buffer[c])]
            /\ buffer' = buffer
    /\ UNCHANGED <<envVars, report_out, reqVars, histVars, profVars, full_response, clean,
                   ntok, first_token, first_tts, final, audio, closed, error,
                   added>>

\* routes.py:262-264 and :273  the audio of the flush is sent
SendAudio(c) ==
    /\ Runs(c) /\ pc[c] = "send_audio"
    /\ sent' = [sent EXCEPT ![c] = Append(@, BytesMsg(audio[c]))]
    /\ IF final[c]
       THEN /\ pc' = [pc EXCEPT ![c] = "send_done"]
            /\ UNCHANGED <<buffer, flushed>>
       ELSE /\ pc' = [pc EXCEPT ![c] = "generate"]
            /\ flushed' = [flushed EXCEPT ![c] = Append(@, buffer[c])]
            /\ buffer' = [buffer EXCEPT ![c] = <<>>]
    /\ UNCHANGED <<envVars, report_out, reqVars, histVars, profVars, full_response, clean,
                   ntok, first_token, first_tts, final, audio, closed, error,
                   added>>

\* the end of the turn without its terminal event
SendDoneSkipped(c) ==
    /\ Runs(c) /\ pc[c] = "send_done"
    /\ pc' = [pc EXCEPT ![c] = "save_history"]
    /\ UNCHANGED <<envVars, report_out, reqVars, histVars, profVars, buffer,
                   full_response, clean, ntok, first_token, first_tts, final,
                   audio, sent, closed, error, flushed, added>>

\* routes.py:275  the terminal event is sent
SendDone(c) ==
    /\ Runs(c) /\ pc[c] = "send_done"
    /\ sent' = [sent EXCEPT ![c] = Append(@, DoneMsg)]
    /\ pc' = [pc EXCEPT ![c] = "save_history"]
    /\ UNCHANGED <<envVars, report_out, reqVars, histVars, profVars, buffer,
                   full_response, clean, ntok, first_token, first_tts, final,
                   audio, closed, error, flushed, added>>

\* the exchange stored with the bracket-stripped text that was spoken
SaveHistoryCleaned(c) ==
    /\ Runs(c) /\ pc[c] = "save_history"
    /\ HistoryAdd(user_text[c], Clean(full_response[c]))
    /\ added' = [added EXCEPT ![c] =
                   Append(@, [user |-> user_text[c],
                              assistant |-> Clean(full_response[c])])]
    /\ report_out' = ProfilerReport(times)
    /\ pc' = [pc EXCEPT ![c] = "finished"]
    /\ UNCHANGED <<envVars, reqVars, profVars, buffer, full_response, clean,
                   ntok, first_token, first_tts, final, audio, sent, closed,
                   error, flushed>>

\* routes.py:277-281  history.add(user_text, full_response.strip()) and the
\* profiler report
SaveHistory(c) ==
    /\ Runs(c) /\ pc[c] = "save_history"
    /\ HistoryAdd(user_text[c], Strip(full_response[c]))
    /\ added' = [added EXCEPT ![c] =
                   Append(@, [user |-> user_text[c],
                              assistant |-> Strip(full_response[c])])]
    /\ report_out' = ProfilerReport(times)
    /\ pc' = [pc EXCEPT ![c] = "finished"]
    /\ UNCHANGED <<envVars, reqVars, profVars, buffer, full_response, clean,
                   ntok, first_token, first_tts, final, audio, sent, closed,
                   error, flushed>>

\* positions at which a call of the handler can raise, and what it raises:
\* receive_json and the sends raise WebSocketDisconnect when the client is
\* gone, the token stream and the synthesis raise any other exception
Raises ==
    [receive |-> "WebSocketDisconnect", send_text |-> "WebSocketDisconnect",
     send_audio |-> "WebSocketDisconnect", send_done |-> "WebSocketDisconnect",
     generate |-> "Exception", tts |-> "Exception"]

\* the except clause storing the partial response of the turn
FailPersisting(c) ==
    /\ Runs(c) /\ pc[c] \in DOMAIN Raises
    /\ error' = [error EXCEPT ![c] = Raises[pc[c]]]
    /\ pc' = [pc EXCEPT ![c] = "failed"]
    /\ HistoryAdd(user_text[c], Strip(full_response[c]))
    /\ UNCHANGED <<envVars, report_out, reqVars, profVars, buffer, full_response, clean,
                   ntok, first_token, first_tts, final, audio, sent, closed,
                   flushed, added>>

\* the except clause reporting the error to the client and closing
FailSignalled(c) ==
    /\ Runs(c) /\ pc[c] \in DOMAIN Raises
    /\ error' = [error EXCEPT ![c] = Raises[pc[c]]]
    /\ pc' = [pc EXCEPT ![c] = "failed"]
    /\ sent' = [sent EXCEPT ![c] = Append(@, JsonMsg([type |-> "error"]))]
    /\ closed' = [closed EXCEPT ![c] = TRUE]
    /\ UNCHANGED <<envVars, report_out, reqVars, histVars, profVars, buffer,
                   full_response, clean, ntok, first_token, first_tts, final,
                   audio, flushed, added>>

\* routes.py:283-288  a call raises and the except clause ends the handler
Fail(c) ==
    /\ Runs(c) /\ pc[c] \in DOMAIN Raises
    /\ error' = [error EXCEPT ![c] = Raises[pc[c]]]
    /\ pc' = [pc EXCEPT ![c] = "failed"]
    /\ UNCHANGED <<envVars, report_out, reqVars, histVars, profVars, buffer,
                   full_response, clean, ntok, first_token, first_tts, final,
                   audio, sent, closed, flushed, added>>

\* the tensor variable before any synthesis
NoAudio == AudioToWavBytes(ApplyTts(<<>>, "", 0), 0)

\* state of the handlers of the connections in act, after accept
ChatInit(act) ==
    /\ active = act
    /\ pc = [c \in Conns |-> IF c \in act THEN "receive" ELSE "idle"]
    /\ script \in [Conns -> 0..Len(Scripts)]
    /\ \A c \in Conns \ act : script[c] = 0
    /\ user_text = [c \in Conns |-> <<>>]
    /\ voice = [c \in Conns |-> ""]
    /\ sample_rate = [c \in Conns |-> 0]
    /\ prompt = [c \in Conns |-> <<>>]
    /\ buffer = [c \in Conns |-> <<>>]
    /\ full_response = [c \in Conns |-> <<>>]
    /\ clean = [c \in Conns |-> <<>>]
    /\ ntok = [c \in Conns |-> 0]
    /\ first_token = [c \in Conns |-> FALSE]
    /\ first_tts = [c \in Conns |-> FALSE]
    /\ final = [c \in Conns |-> FALSE]
    /\ audio = [c \in Conns |-> NoAudio]
    /\ sent = [c \in Conns |-> <<>>]
    /\ closed = [c \in Conns |-> FALSE]
    /\ error = [c \in Conns |-> "none"]
    /\ flushed = [c \in Conns |-> <<>>]
    /\ added = [c \in Conns |-> <<>>]

\* history files the chat specification starts from
ChatFiles == {f \in InitialFiles : f.state = "ok" /\ Len(f.data) < 5}

(***************************************************************************)
(* Specification of one chat turn on one connection.                       *)
(***************************************************************************)
Init ==
    /\ SettingsInit(NoSettingsFile)
    /\ ProfilerInit
    /\ AudioInit("wrap")
    /\ RagInit(NoKnowledge)
    /\ \E f \in ChatFiles : HistoryInit(f)
    /\ ChatInit({1})

Next ==
    \E c \in Conns :
       \/ Receive(c)
       \/ NextToken(c)
       \/ EndOfStream(c)
       \/ SendText(c)
       \/ Synthesize(c)
       \/ SendAudio(c)
       \/ SendDone(c)
       \/ SaveHistory(c)
       \/ Fail(c)

Spec == Init /\ [][Next]_vars

(***************************************************************************)
(* Specification of one chat turn started on a stored conversation, with   *)
(* a knowledge base that has a section about the owl.                      *)
(***************************************************************************)
Letters == <<"a", "b", "c", "d", "e", "f", "g", "h", "i", "j", "k", "l">>

\* a stored conversation of n exchanges with different texts; every third
\* exchange has no user side and every fourth no assistant side
PromptLog(n) ==
    [i \in 1..n |->
        Exchange(i - n,
                 IF i % 3 = 0 THEN <<>> ELSE <<"q", Letters[i]>>,
                 IF i % 4 = 0 THEN <<>> ELSE <<"r", Letters[i]>>)]

PromptFiles == {[state |-> "ok", data |-> PromptLog(n)] : n \in {0, 3, 12}}

OwlKnowledge == [exists |-> TRUE, files |-> (AMd :> TextFile(OwlFile))]

InitPrompt ==
    /\ SettingsInit(NoSettingsFile)
    /\ ProfilerInit
    /\ AudioInit("wrap")
    /\ RagInit(OwlKnowledge)
    /\ \E f \in PromptFiles : HistoryInit(f)
    /\ ChatInit({1})
    /\ script[1] = 2

SpecPrompt == InitPrompt /\ [][Next]_vars

(***************************************************************************)
(* Specification of two chat turns on two connections, the first playing   *)
(* "Hello, how are you? " and the second "Good, bye.".                     *)
(***************************************************************************)
InitTwo ==
    /\ SettingsInit(NoSettingsFile)
    /\ ProfilerInit
    /\ AudioInit("wrap")
    /\ RagInit(NoKnowledge)
    /\ \E f \in ChatFiles : HistoryInit(f)
    /\ ChatInit({1, 2})
    /\ script[1] = 1 /\ script[2] = 2

SpecTwo == InitTwo /\ [][Next]_vars

(***************************************************************************)
(* Specification of the audio encoder called on small tensors.             *)
(***************************************************************************)
\* variables the encoder does not write
notWavVars == <<settings, setVars, profVars, logVars, kbVars, histVars, chatVars>>

Encode ==
    \E samples \in Tensors, rate \in SampleRates :
       AudioToWavBytesCall(samples, rate) /\ UNCHANGED notWavVars

InitAudio ==
    /\ SettingsInit(NoSettingsFile)
    /\ ProfilerInit
    /\ \E cast \in Casts : AudioInit(cast)
    /\ RagInit(NoKnowledge)
    /\ HistoryInit([state |-> "absent", data |-> <<>>])
    /\ ChatInit({})

NextAudio == Encode

SpecAudio == InitAudio /\ [][NextAudio]_vars

(***************************************************************************)
(* Specification of the history store under add, clear, save and restart.  *)
(***************************************************************************)
\* variables the history store does not write
notHistVars == <<settings, setVars, profVars, logVars, wavVars, kbVars, chatVars>>

\* add with the exchange of a finished turn
Add ==
    /\ now < MaxAdds
    /\ HistoryAdd(Hi, <<"O", "k", ".">>)
    /\ UNCHANGED notHistVars

Clear == HistoryClear /\ UNCHANGED notHistVars

Save == HistorySave /\ UNCHANGED notHistVars

Restart == HistoryRestart /\ UNCHANGED notHistVars

InitHist ==
    /\ SettingsInit(NoSettingsFile)
    /\ ProfilerInit
    /\ AudioInit("wrap")
    /\ RagInit(NoKnowledge)
    /\ \E f \in InitialFiles : HistoryInit(f)
    /\ ChatInit({})

NextHist == Add \/ Clear \/ Save \/ Restart

SpecHist == InitHist /\ [][NextHist]_vars

(***************************************************************************)
(* Specification of the settings store under update, set, reset, save and  *)
(* restart.                                                                *)
(***************************************************************************)
\* variables the settings store does not write
notSetVars == <<profVars, logVars, wavVars, kbVars, histVars, chatVars>>

Update == \E u \in UpdateRequests : SettingsUpdate(u) /\ UNCHANGED notSetVars

SetKey == \E r \in SetRequests : SettingsSet(r[1], r[2]) /\ UNCHANGED notSetVars

Reset == SettingsReset /\ UNCHANGED notSetVars

SaveSettings == SettingsSave /\ UNCHANGED notSetVars

RestartSettings == SettingsRestart /\ UNCHANGED notSetVars

InitSettings ==
    /\ \E f \in InitialSettingsFiles : SettingsInit(f)
    /\ ProfilerInit
    /\ AudioInit("wrap")
    /\ RagInit(NoKnowledge)
    /\ HistoryInit([state |-> "absent", data |-> <<>>])
    /\ ChatInit({})

NextSettings == Update \/ SetKey \/ Reset \/ SaveSettings \/ RestartSettings

SpecSettings == InitSettings /\ [][NextSettings]_vars


(***************************************************************************)
(* Specification of the knowledge base with one request at a time.         *)
(***************************************************************************)
\* variables the knowledge base does not write
notKbVars == <<settings, setVars, profVars, logVars, wavVars, histVars, chatVars>>

RetrieveChunks ==
    \E q \in Queries, k \in TopKs : RetrieveCall(q, k) /\ UNCHANGED notKbVars

Reload == ReloadKnowledge /\ UNCHANGED notKbVars

CreateFile ==
    \E n \in {<<>>, <<" ">>, <<" ", "b">>, CTxt}, content \in FileTexts :
       CreateKnowledgeFile([name |-> n, content |-> content])
       /\ UNCHANGED notKbVars

DeleteFile ==
    \E f \in {AMd, BMd, CTxt} : DeleteKnowledgeFile(f) /\ UNCHANGED notKbVars

InitKb ==
    /\ SettingsInit(NoSettingsFile)
    /\ ProfilerInit
    /\ AudioInit("wrap")
    /\ \E dir \in InitialDirs : RagInit(dir)
    /\ HistoryInit([state |-> "absent", data |-> <<>>])
    /\ ChatInit({})

NextKb == RetrieveChunks \/ Reload \/ CreateFile \/ DeleteFile

SpecKb == InitKb /\ [][NextKb]_vars

(***************************************************************************)
(* Specification of knowledge-base requests served by two threads.         *)
(***************************************************************************)
NextReload ==
    \E t \in Threads :
       \/ BeginReload(t) /\ UNCHANGED notKbVars
       \/ \E f \in {AMd, CTxt} : BeginDelete(t, f) /\ UNCHANGED notKbVars
       \/ \E content \in {<<>>, NapSection}, n \in {<<>>, <<" ", "b">>} :
             BeginCreate(t, [name |-> n, content |-> content])
             /\ UNCHANGED notKbVars
       \/ ClearDocuments(t) /\ UNCHANGED notKbVars
       \/ LoadFile(t) /\ UNCHANGED notKbVars
       \/ GlobTxt(t) /\ UNCHANGED notKbVars
       \/ EndLoad(t) /\ UNCHANGED notKbVars
       \/ Respond(t) /\ UNCHANGED notKbVars
       \/ \E q \in {CatDogEmu, YakQuery} :
             RetrieveDuring(t, q) /\ UNCHANGED notKbVars

SpecReload == InitKb /\ [][NextReload]_vars

(***************************************************************************)
(* Specification of the profiler under start, stop, reset and report.      *)
(***************************************************************************)
\* variables the profiler does not write
notProfVars == <<settings, setVars, wavVars, kbVars, histVars, chatVars>>

StartTimer == \E n \in TimerNames : ProfilerStartCall(n) /\ UNCHANGED notProfVars

StopTimer == \E n \in TimerNames : ProfilerStopCall(n) /\ UNCHANGED notProfVars

ResetTimers == ProfilerReset /\ UNCHANGED notProfVars

Report == ProfilerReportCall /\ UNCHANGED notProfVars

InitProf ==
    /\ SettingsInit(NoSettingsFile)
    /\ ProfilerInit
    /\ AudioInit("wrap")
    /\ RagInit(NoKnowledge)
    /\ HistoryInit([state |-> "absent", data |-> <<>>])
    /\ ChatInit({})

NextProf == StartTimer \/ StopTimer \/ ResetTimers \/ Report

SpecProf == InitProf /\ [][NextProf]_vars

(***************************************************************************)
(* Vocabulary of the properties.                                           *)
(***************************************************************************)
IsTextChunk(m) == m.kind = "json" /\ m.body.type = "text_chunk"

IsAudio(m) == m.kind = "bytes"

IsDone(m) == m.kind = "json" /\ m.body.type = "done"

IsError(m) == m.kind = "json" /\ m.body.type = "error"

\* the audio payload a client expects for a text of this turn
AudioOf(c, text) ==
    BytesMsg([nchannels |-> 1, sampwidth |-> 2, framerate |-> sample_rate[c],
              frames |-> [text |-> text, speaker |-> voice[c],
                          sample_rate |-> sample_rate[c]]])

\* the handler has run to its end without an exception
Completed(c) == pc[c] = "finished"

\* the messages of a turn that precede its done event
BeforeDone(c) ==
    IF sent[c] # <<>> /\ IsDone(sent[c][Len(sent[c])])
    THEN SubSeq(sent[c], 1, Len(sent[c]) - 1) ELSE sent[c]

\* the contents of the text_chunk events sent so far, concatenated
RECURSIVE ChunkTextOf(_)
ChunkTextOf(msgs) ==
    IF msgs = <<>> THEN <<>>
    ELSE (IF IsTextChunk(Head(msgs)) THEN Head(msgs).body.content ELSE <<>>)
         \o ChunkTextOf(Tail(msgs))

(***************************************************************************)
(* C1: the messages of a turn alternate text_chunk, audio: every audio     *)
(* payload directly follows a text_chunk and is the synthesis of that      *)
(* chunk's cleaned text at the turn's voice and sample rate; every         *)
(* text_chunk is directly followed by its audio, and a text_chunk is the   *)
(* last message only while its audio is being produced or after an         *)
(* exception.                                                              *)
(***************************************************************************)
C1_TextThenAudio ==
    \A c \in active :
       LET m == sent[c] IN
       /\ \A i \in 1..Len(m) :
             IsAudio(m[i]) =>
                /\ i > 1
                /\ IsTextChunk(m[i - 1])
                /\ m[i] = AudioOf(c, Strip(m[i - 1].body.content))
       /\ \A i \in 1..Len(m) :
             IsTextChunk(m[i]) =>
                IF i < Len(m) THEN IsAudio(m[i + 1])
                ELSE pc[c] \in {"tts", "send_audio", "failed"}
       /\ \A i \in 1..Len(m) : IsTextChunk(m[i]) \/ IsAudio(m[i]) \/ i = Len(m)

\* a completed turn that sent two text_chunk/audio pairs
C1_Witness ==
    /\ Completed(1)
    /\ Len(sent[1]) = 5
    /\ IsTextChunk(sent[1][1]) /\ IsAudio(sent[1][2])
    /\ IsTextChunk(sent[1][3]) /\ IsAudio(sent[1][4])

(***************************************************************************)
(* C2: when a token is appended, an in-loop flush starts if and only if    *)
(* the right-trimmed buffer ends with one of . ! ? , : ; and the buffer is *)
(* longer than 5 characters; otherwise the token stays in the buffer and   *)
(* nothing is sent.  The stream spelling "Hello, how are you? " flushes    *)
(* exactly "Hello," and then "how are you?".                               *)
(***************************************************************************)
C2_FlushStep ==
    \A c \in Conns :
       ntok'[c] = ntok[c] + 1 =>
          LET token == SubSeq(full_response'[c], Len(full_response[c]) + 1,
                              Len(full_response'[c]))
              buf == buffer[c] \o token
              trimmed == RStrip(buf)
              due == /\ trimmed # <<>>
                     /\ trimmed[Len(trimmed)] \in {".", "!", "?", ",", ":", ";"}
                     /\ Len(buf) > 5
          IN
          /\ due <=> pc'[c] = "send_text"
          /\ due => clean'[c] = Strip(SubBrackets(buf))
          /\ ~due => buffer'[c] = buf /\ pc'[c] = "generate"
          /\ sent'[c] = sent[c]

C2_HelloFlushes ==
    \A c \in active :
       script[c] = 1 /\ Completed(c) =>
          sent[c] = <<TextChunk(<<"H", "e", "l", "l", "o", ",", " ">>),
                      AudioOf(c, <<"H", "e", "l", "l", "o", ",">>),
                      TextChunk(<<"h", "o", "w", " ", "a", "r", "e", " ",
                                  "y", "o", "u", "?", " ">>),
                      AudioOf(c, <<"h", "o", "w", " ", "a", "r", "e", " ",
                                   "y", "o", "u", "?">>),
                      DoneMsg>>

C2_FlushIffDelimiterAndLength == [][C2_FlushStep]_vars /\ []C2_HelloFlushes

\* the short buffer "Ok," ends in a delimiter and waits in the buffer
C2_Witness ==
    /\ pc[1] = "generate"
    /\ ntok[1] = 1
    /\ buffer[1] = <<"O", "k", ",">>
    /\ sent[1] = <<>>

(***************************************************************************)
(* C3: at the end of the token stream, a buffer whose bracket-stripped,    *)
(* trimmed form is non-empty is emitted as exactly one more text_chunk and *)
(* its audio before the done event, delimiter or not; an empty or          *)
(* whitespace-only buffer adds no chunk.                                   *)
(***************************************************************************)
C3_FinalFlush ==
    \A c \in active :
       final[c] /\ pc[c] \in {"send_done", "save_history", "finished"} =>
          LET body == BeforeDone(c)
              k == 2 * Len(flushed[c])
              rest == Strip(SubBrackets(buffer[c]))
          IN
          /\ Len(body) >= k
          /\ IF rest # <<>>
             THEN /\ Len(body) = k + 2
                  /\ body[k + 1] = TextChunk(rest)
                  /\ body[k + 2] = AudioOf(c, rest)
             ELSE Len(body) = k
          /\ Strip(buffer[c]) = <<>> => Len(body) = k

\* the trailing buffer "Thanks" was flushed at the end of the stream
C3_Witness ==
    /\ Completed(1)
    /\ buffer[1] = <<"T", "h", "a", "n", "k", "s">>
    /\ sent[1][Len(sent[1]) - 2] = TextChunk(<<"T", "h", "a", "n", "k", "s">>)

(***************************************************************************)
(* C4: a turn with non-empty user text that runs without an exception      *)
(* sends exactly one done event; it comes after the last text_chunk/audio  *)
(* pair and is the last message of the turn.                               *)
(***************************************************************************)
C4_OneDoneLast ==
    \A c \in active :
       /\ \A i \in 1..Len(sent[c]) : IsDone(sent[c][i]) => i = Len(sent[c])
       /\ Completed(c) =>
             /\ user_text[c] # <<>>
             /\ sent[c] # <<>>
             /\ IsDone(sent[c][Len(sent[c])])
       /\ (sent[c] # <<>> /\ IsDone(sent[c][Len(sent[c])])) =>
             pc[c] \in {"save_history", "finished"}

\* a completed turn whose done event follows a text_chunk/audio pair
C4_Witness ==
    /\ Completed(1)
    /\ Len(sent[1]) >= 3
    /\ IsDone(sent[1][Len(sent[1])])
    /\ IsAudio(sent[1][Len(sent[1]) - 1])

(***************************************************************************)
(* C5: a turn that completes appends exactly one exchange to the history,  *)
(* after its done event was sent; the exchange holds the original user     *)
(* text and the trimmed concatenation of every generated token, brackets   *)
(* kept.                                                                   *)
(***************************************************************************)
C5_State ==
    \A c \in active :
       /\ Completed(c) =>
             /\ Len(added[c]) = 1
             /\ added[c][1].user = user_text[c]
             /\ added[c][1].assistant = Strip(Concat(flushed[c]) \o buffer[c])
             /\ script[c] # 0 =>
                   added[c][1].assistant = Strip(Concat(Scripts[script[c]]))
             /\ history # <<>>
             /\ history[Len(history)].user = added[c][1].user
             /\ history[Len(history)].assistant = added[c][1].assistant
       /\ ~Completed(c) => added[c] = <<>>
       /\ added[c] # <<>> => sent[c] # <<>> /\ IsDone(sent[c][Len(sent[c])])

C5_Step ==
    \A c \in active :
       /\ Len(history') =
             Len(history) + (IF Completed(c)' /\ ~Completed(c) THEN 1 ELSE 0)
       /\ SubSeq(history', 1, Len(history)) = history
       /\ (Completed(c)' /\ ~Completed(c)) =>
             sent[c] # <<>> /\ IsDone(sent[c][Len(sent[c])]) /\ sent'[c] = sent[c]

C5_OneExchangeAfterDone == []C5_State /\ [][C5_Step]_vars

\* a completed turn whose stored answer keeps a bracketed span that no
\* text_chunk carried
C5_Witness ==
    /\ Completed(1)
    /\ \E i \in 1..Len(added[1][1].assistant) : added[1][1].assistant[i] = "["
    /\ added[1][1].assistant # SubBrackets(added[1][1].assistant)
    /\ ChunkTextOf(sent[1]) # <<>>
    /\ Strip(ChunkTextOf(sent[1])) # added[1][1].assistant

(***************************************************************************)
(* C6: a start message whose text is empty or missing ends the turn at     *)
(* once: the handler closes the connection, and no token is generated, no  *)
(* message is sent and the history is left as it was.                      *)
(***************************************************************************)
C6_State ==
    \A c \in active :
       /\ pc[c] = "aborted" =>
             /\ user_text[c] = <<>>
             /\ closed[c]
             /\ sent[c] = <<>>
             /\ ntok[c] = 0 /\ full_response[c] = <<>>
             /\ added[c] = <<>>
             /\ last.op = "load"
       /\ (user_text[c] = <<>> /\ pc[c] # "receive") =>
             pc[c] \in {"aborted", "failed"} /\ sent[c] = <<>> /\ ntok[c] = 0

C6_Step ==
    \A c \in active :
       /\ (pc[c] = "receive" /\ pc'[c] = "aborted") =>
             history' = history /\ history_file' = history_file
       /\ pc[c] = "aborted" => UNCHANGED vars

C6_EmptyTextAborts == []C6_State /\ [][C6_Step]_vars

\* the handler has closed the connection on an empty start message
C6_Witness ==
    /\ pc[1] = "aborted"
    /\ closed[1]
    /\ user_text[1] = <<>>
    /\ sent[1] = <<>>

(***************************************************************************)
(* C7: once a call of the turn raises, the handler stops: the messages     *)
(* sent so far stay as they are, no further message is sent, no step is    *)
(* taken again, and no exchange of the turn is in the history.             *)
(***************************************************************************)
C7_State ==
    \A c \in active :
       pc[c] = "failed" =>
          /\ added[c] = <<>>
          /\ last.op = "load"
          /\ history = Load(history_file)
          /\ \A i \in 1..Len(sent[c]) : ~IsDone(sent[c][i])

C7_Step ==
    \A c \in active :
       /\ (pc'[c] = "failed" /\ pc[c] # "failed") =>
             /\ sent'[c] = sent[c]
             /\ history' = history /\ history_file' = history_file
             /\ ntok'[c] = ntok[c]
       /\ pc[c] = "failed" => UNCHANGED vars

C7_ExceptionStopsTurn == []C7_State /\ [][C7_Step]_vars

\* a send failed after a text_chunk/audio pair had been delivered
C7_Witness ==
    /\ pc[1] = "failed"
    /\ error[1] = "WebSocketDisconnect"
    /\ Len(sent[1]) >= 2
    /\ ntok[1] >= 1

(***************************************************************************)
(* C8 as stated, for the errors that leave the client connected (the token *)
(* stream or the synthesis raised): a turn that ends in an error has       *)
(* signalled the error to the client and closed the connection.            *)
(***************************************************************************)
C8_ErrorSignalled ==
    \A c \in active :
       (pc[c] = "failed" /\ error[c] = "Exception") =>
          /\ \E i \in 1..Len(sent[c]) : IsError(sent[c][i])
          /\ closed[c]

(***************************************************************************)
(* C8 as amended: a turn that ends in an error ends in the except clause,  *)
(* which only logs: the client has received text_chunk and audio messages  *)
(* only (no error event, no done event) and the handler has not called     *)
(* close.                                                                  *)
(***************************************************************************)
C8_ErrorOnlyLogged ==
    \A c \in active :
       pc[c] = "failed" =>
          /\ error[c] \in {"WebSocketDisconnect", "Exception"}
          /\ \A i \in 1..Len(sent[c]) :
                IsTextChunk(sent[c][i]) \/ IsAudio(sent[c][i])
          /\ ~closed[c]

\* the synthesis raised after the text_chunk of the chunk had been sent
C8_Witness ==
    /\ pc[1] = "failed"
    /\ error[1] = "Exception"
    /\ sent[1] # <<>>
    /\ IsTextChunk(sent[1][Len(sent[1])])

(***************************************************************************)
(* C9 as stated: counted from the construction of the history (empty or    *)
(* loaded with any number of entries) or from the last clear, exactly the  *)
(* 5th, 10th, ... call of add triggers one save and the others none.       *)
(***************************************************************************)
C9_EveryFifthCall ==
    [][adds' = adds + 1 =>
          last'.saves = (IF adds' % 5 = 0 THEN 1 ELSE 0)]_vars

(***************************************************************************)
(* C9 as amended: an add triggers exactly one save when the length of the  *)
(* in-memory history after the append is a multiple of 5, and none         *)
(* otherwise; when the history was empty, just cleared or loaded with a    *)
(* multiple of 5 entries, these are exactly the 5th, 10th, ... adds.       *)
(***************************************************************************)
C9_EveryFifthLength ==
    [][adds' = adds + 1 =>
          /\ last'.op = "add"
          /\ last'.saves = (IF Len(history') % 5 = 0 THEN 1 ELSE 0)
          /\ (Len(history) - adds) % 5 = 0 =>
                last'.saves = (IF adds' % 5 = 0 THEN 1 ELSE 0)]_vars

\* the 10th add since an empty start has just saved
C9_Witness ==
    /\ last.op = "add"
    /\ last.saves = 1
    /\ adds = 10
    /\ Len(history) = 10

(***************************************************************************)
(* C10: the persisted log never holds more than 100 exchanges, and right   *)
(* after a successful save it is the most recent min(len, 100) in-memory   *)
(* exchanges in their arrival order, while the in-memory log may be longer *)
(* than 100.                                                               *)
(***************************************************************************)
C10_PersistedIsRecentSuffix ==
    /\ history_file.state = "ok" => Len(history_file.data) <= 100
    /\ last.result = "ok" =>
          LET n == IF Len(history) < 100 THEN Len(history) ELSE 100 IN
          /\ history_file.state = "ok"
          /\ Len(history_file.data) = n
          /\ \A i \in 1..n :
                history_file.data[i] = history[Len(history) - n + i]

\* a save of an in-memory log of more than 100 exchanges
C10_Witness ==
    /\ last.result = "ok"
    /\ Len(history) > 100
    /\ Len(history_file.data) = 100
    /\ history_file.data[100] = history[Len(history)]

(***************************************************************************)
(* C11 as stated: right after a clear, history retrieval returns no        *)
(* exchange and the persisted file holds no exchange.                      *)
(***************************************************************************)
C11_ClearEmptiesBoth ==
    last.op = "clear" =>
       /\ HistoryGetAll = <<>>
       /\ Load(history_file) = <<>>

(***************************************************************************)
(* C11 as amended: a clear empties the in-memory log and calls save once,  *)
(* at once; right after it history retrieval returns no exchange, and the  *)
(* persisted file holds the empty log when that write succeeded (a failed  *)
(* write is only logged and leaves the file as it was, or unreadable).     *)
(***************************************************************************)
C11_ClearEmptiesAndSaves ==
    last.op = "clear" =>
       /\ HistoryGetAll = <<>>
       /\ adds = 0
       /\ last.saves = 1
       /\ last.result = "ok" =>
             history_file.state = "ok" /\ history_file.data = <<>>
       /\ last.result = "write_failed" => Load(history_file) = <<>>

\* a clear after some exchanges had been appended and saved
C11_Witness ==
    /\ last.op = "clear"
    /\ last.result = "ok"
    /\ now >= 5
    /\ history = <<>>
    /\ history_file.data = <<>>

(***************************************************************************)
(* C12: a settings update sets exactly the requested keys of the default   *)
(* schema to the requested values, drops the requested keys outside the    *)
(* schema, leaves every other stored key and value as it was, and saves    *)
(* the resulting mapping once.                                             *)
(***************************************************************************)
C12_UpdateStep ==
    slast'.op = "update" =>
       LET u == slast'.request
           known == {"temperature", "topP", "topK", "maxTokens",
                     "repeatPenalty", "contextWindow", "beamSize",
                     "vadFilter", "vadThreshold", "sampleRate", "voice",
                     "soundEffects", "inputDevice", "outputDevice"}
       IN
       /\ \A k \in DOMAIN u \cap known :
             k \in DOMAIN settings' /\ settings'[k] = u[k]
       /\ \A k \in DOMAIN settings \ (DOMAIN u \cap known) :
             k \in DOMAIN settings' /\ settings'[k] = settings[k]
       /\ \A k \in DOMAIN settings' :
             k \in DOMAIN settings \/ k \in DOMAIN u \cap known
       /\ slast'.saves = 1
       /\ slast'.result = "ok" =>
             settings_file' = [state |-> "ok", data |-> settings']

C12_UpdateChangesKnownKeysOnly == [][C12_UpdateStep]_vars

\* the update {"foo": 1, "topK": 50} changed topK and dropped foo
C12_Witness ==
    /\ slast.op = "update"
    /\ slast.request = [foo |-> 1, topK |-> 50]
    /\ slast.result = "ok"
    /\ settings.topK = 50
    /\ "foo" \notin DOMAIN settings
    /\ settings.voice = "en_1"

(***************************************************************************)
(* C13 as stated: whatever settings file was loaded, a mapping written to  *)
(* the settings store contains only keys of the default schema.            *)
(***************************************************************************)
C13_WritesKnownKeysOnly ==
    (slast.result = "ok" /\ slast.op \in {"update", "reset"}) =>
       DOMAIN settings_file.data \subseteq DefaultKeys

(***************************************************************************)
(* C13 as amended: unknown keys of the persisted settings are kept by the  *)
(* load and written back: the load yields the defaults overlaid with every *)
(* key of the file, a write stores the whole in-memory mapping, which      *)
(* always holds every key of the default schema, an update neither adds    *)
(* nor removes an unknown key, and only reset removes them.                *)
(***************************************************************************)
C13_State ==
    /\ DefaultKeys \subseteq DOMAIN settings
    /\ slast.result = "ok" =>
          settings_file.state = "ok" /\ settings_file.data = settings
    /\ slast.op = "load" =>
          DOMAIN settings =
             DefaultKeys \cup
                (IF settings_file.state = "ok" THEN DOMAIN settings_file.data
                 ELSE {})
    /\ slast.op = "reset" => DOMAIN settings = DefaultKeys

C13_Step ==
    slast'.op = "update" =>
       DOMAIN settings' \ DefaultKeys = DOMAIN settings \ DefaultKeys

C13_UnknownKeysWrittenBack == []C13_State /\ [][C13_Step]_vars

\* an update wrote back the unknown key foo of the loaded file
C13_Witness ==
    /\ slast.op = "update"
    /\ slast.result = "ok"
    /\ "foo" \in DOMAIN settings_file.data
    /\ settings_file.data.foo = 7

(***************************************************************************)
(* Vocabulary of the retrieval properties.                                 *)
(***************************************************************************)
\* the number of keywords chunk i of the collection read by the most recent
\* retrieve shares with its query
Shared(i) == Cardinality(Keywords(klast.query) \cap klast.seen[i].keywords)

\* the string retrieve builds from the chunks at the positions top
Rendered(docs, top) ==
    JoinParts([i \in 1..Len(top) |-> ContextPart(docs[top[i]])])

\* the text has a run of three word characters
HasWord(s) ==
    \E j \in 1..(Len(s) - 2) :
       s[j] \in WordChars /\ s[j + 1] \in WordChars /\ s[j + 2] \in WordChars

\* the collection holds a chunk with this text from this file
Holds(docs, section, source) ==
    \E i \in 1..Len(docs) : docs[i].content = section /\ docs[i].source = source

(***************************************************************************)
(* C14: retrieve returns the empty string when no chunk is loaded or no    *)
(* loaded chunk shares a keyword with the query, and a non-empty string    *)
(* when some loaded chunk shares a keyword with the query and top_k >= 1.  *)
(***************************************************************************)
C14_EmptyIffNoOverlap ==
    klast.op = "retrieve" =>
       LET overlapping == {i \in 1..Len(klast.seen) : Shared(i) > 0}
       IN  /\ (klast.seen = <<>> \/ overlapping = {}) => klast.result = <<>>
           /\ (overlapping # {} /\ klast.top_k >= 1) => klast.result # <<>>

\* a query in capitals finds its chunk among chunks it shares nothing with
C14_Witness ==
    /\ klast.op = "retrieve" /\ klast.query = OwlQuery /\ klast.top_k = 1
    /\ klast.result # <<>>
    /\ \E i, j \in 1..Len(documents) :
          /\ documents[i].content = Owl21
          /\ Keywords(OwlQuery) \cap documents[j].keywords = {}

(***************************************************************************)
(* C15: retrieve(query, top_k) returns at most top_k chunks, each with an  *)
(* overlap above 0, by descending overlap and, among equal overlaps, in    *)
(* load order; no chunk left out has a greater overlap than a returned     *)
(* one.  Chunks of overlaps 3, 1 and 2 in any load order give, for         *)
(* top_k = 2, the chunk of overlap 3 and then the chunk of overlap 2.      *)
(***************************************************************************)
C15_TopKByOverlap ==
    klast.op = "retrieve" =>
       LET top == klast.top
           n == Len(klast.seen)
       IN  /\ Len(top) <= klast.top_k
           /\ \A i \in 1..Len(top) : top[i] \in 1..n /\ Shared(top[i]) > 0
           /\ \A i, j \in 1..Len(top) :
                 i < j => \/ Shared(top[i]) > Shared(top[j])
                          \/ /\ Shared(top[i]) = Shared(top[j])
                             /\ top[i] < top[j]
           /\ \A d \in 1..n :
                 (\A i \in 1..Len(top) : top[i] # d) =>
                    \A i \in 1..Len(top) : Shared(d) <= Shared(top[i])
           /\ klast.result = Rendered(klast.seen, top)
           /\ (/\ klast.top_k = 2
               /\ n = 3
               /\ {Shared(i) : i \in 1..n} = {1, 2, 3}) =>
                 /\ Len(top) = 2
                 /\ Shared(top[1]) = 3
                 /\ Shared(top[2]) = 2

\* the chunk of overlap 3 loaded last and the chunk of overlap 2 second
C15_Witness ==
    /\ klast.op = "retrieve" /\ klast.query = CatDogEmu /\ klast.top_k = 2
    /\ Len(documents) = 3
    /\ <<documents[1].content, documents[2].content, documents[3].content>>
          = <<NapSection, HomeSection, ZooSection>>
    /\ klast.top = <<3, 2>>

(***************************************************************************)
(* C16 as stated: a trimmed section of a readable file is held as a chunk  *)
(* exactly when it has at least 20 characters.                             *)
(***************************************************************************)
C16_KeptFromTwentyCharacters ==
    \A name \in DOMAIN kb.files :
       kb.files[name].readable =>
          LET sections == TrimmedSections(kb.files[name].text)
          IN  \A i \in 1..Len(sections) :
                 Len(sections[i]) >= 20 <=> Holds(documents, sections[i], name)

(***************************************************************************)
(* C16 as amended: a trimmed section of a readable file is held as a chunk *)
(* exactly when it has more than 20 characters; a section of 20 characters *)
(* or fewer is discarded and never returned by retrieve.                   *)
(***************************************************************************)
C16_KeptAboveTwentyCharacters ==
    /\ \A name \in DOMAIN kb.files :
          kb.files[name].readable =>
             LET sections == TrimmedSections(kb.files[name].text)
             IN  \A i \in 1..Len(sections) :
                    Len(sections[i]) > 20 <=> Holds(documents, sections[i], name)
    /\ \A i \in 1..Len(documents) : Len(documents[i].content) > 20
    /\ klast.op = "retrieve" =>
          \A i \in 1..Len(klast.top) :
             Len(klast.seen[klast.top[i]].content) > 20

\* of the sections of 20, 19 and 21 characters of one file, sharing the
\* keyword of the query, only the last is held and returned
C16_Witness ==
    /\ \E name \in DOMAIN kb.files :
          /\ kb.files[name] = TextFile(OwlFile)
          /\ TrimmedSections(OwlFile) = <<Owl20, Owl19, Owl21>>
          /\ Holds(documents, Owl21, name)
          /\ ~Holds(documents, Owl20, name)
          /\ ~Holds(documents, Owl19, name)
    /\ klast.op = "retrieve" /\ klast.query = OwlQuery /\ klast.top_k = 2
    /\ Len(klast.top) = 1
    /\ documents[klast.top[1]].content = Owl21

(***************************************************************************)
(* C20 as stated: every chunk held after a load has a non-empty keyword    *)
(* set.                                                                    *)
(***************************************************************************)
C20_KeywordsNeverEmpty ==
    \A i \in 1..Len(documents) : documents[i].keywords # {}

(***************************************************************************)
(* C20 as amended: every chunk returned by retrieve has a non-empty        *)
(* keyword set; a held chunk has an empty keyword set exactly when its     *)
(* text has no run of three word characters, and is then never returned.   *)
(***************************************************************************)
C20_ReturnedHaveKeywords ==
    /\ \A i \in 1..Len(documents) :
          documents[i].keywords = {} <=> ~HasWord(documents[i].content)
    /\ klast.op = "retrieve" =>
          \A i \in 1..Len(klast.top) :
             klast.seen[klast.top[i]].keywords # {}

\* a chunk of single letters is held with no keyword next to a chunk that
\* is returned
C20_Witness ==
    /\ \E i \in 1..Len(documents) :
          documents[i].content = LettersSection /\ documents[i].keywords = {}
    /\ klast.op = "retrieve" /\ klast.query = CatDogEmu
    /\ klast.top # <<>>

(***************************************************************************)
(* C17: a retrieve running while another thread reloads reads either the   *)
(* complete collection of the knowledge directory as it was or the         *)
(* complete collection of the directory as it is, never an empty or        *)
(* partly filled one.                                                      *)
(***************************************************************************)
C17_ReloadIsAtomic ==
    klast.op = "retrieve" => \E d \in dirs : klast.seen \in Collections(d)

(***************************************************************************)
(* C18: a create or delete that changed a file answers after its reload    *)
(* with the chunk count of the reloaded collection, a complete collection  *)
(* of the knowledge directory; a request with an empty file name or for a  *)
(* missing file is answered without a reload.                              *)
(***************************************************************************)
C18_ReloadedCountReported ==
    klast.op \in {"create", "delete"} =>
       IF klast.status = "ok"
       THEN /\ klast.reloads = 1
            /\ \E d \in dirs : \E c \in Collections(d) : klast.count = Len(c)
       ELSE klast.reloads = 0

(***************************************************************************)
(* C19: stop(x) returns 0 when x was not started since the last reset (or  *)
(* ever); a stop(x) after a start(x) returns the non-negative time since   *)
(* the most recent start(x); reset clears every start and duration, so a   *)
(* report right after it logs no duration.                                 *)
(***************************************************************************)
C19_State ==
    /\ plast.op = "stop" =>
          IF plast.name \in DOMAIN starts
          THEN plast.ret = perf - starts[plast.name] /\ plast.ret >= 0
          ELSE plast.ret = 0
    /\ plast.op = "start" => starts[plast.name] = perf
    /\ plast.op = "reset" => starts = <<>> /\ times = <<>>

C19_Step ==
    /\ (plast'.op = "start" /\ perf' >= perf) =>
          \A n \in DOMAIN starts \ {plast'.name} :
             n \in DOMAIN starts' /\ starts'[n] = starts[n]
    /\ plast'.op = "stop" => starts' = starts
    /\ (plast.op = "reset" /\ plast'.op = "report") => report_out' = {}

C19_ProfilerStopAndReset == []C19_State /\ [][C19_Step]_vars

\* after a reset, stop of a timer that had a duration before returns 0
C19_Witness ==
    /\ plast = [op |-> "stop", name |-> "stt", ret |-> 0]
    /\ "stt" \notin DOMAIN starts
    /\ perf >= 300
    /\ "llm_ttft" \in DOMAIN starts

(***************************************************************************)
(* C21: no text_chunk content sent to a client and no text handed to the   *)
(* synthesis holds a "[" that is followed later in the same text by a "]". *)
(***************************************************************************)
C21_NoBracketSpanEmitted ==
    \A c \in active :
       \A i \in 1..Len(sent[c]) :
          LET text == IF IsTextChunk(sent[c][i]) THEN sent[c][i].body.content
                      ELSE IF IsAudio(sent[c][i]) THEN sent[c][i].body.frames.text
                      ELSE <<>>
          IN  \A j, k \in 1..Len(text) :
                 j < k => ~(text[j] = "[" /\ text[k] = "]")

(***************************************************************************)
(* C22.  The prompt of a turn is the system segment, then the last         *)
(* min(10, len(history)) stored exchanges in stored order, each as its     *)
(* user segment then its assistant segment with an empty side left out,    *)
(* then the segment of the current user text and an open assistant         *)
(* segment.  The prompt is read back segment by segment.                   *)
(***************************************************************************)
\* positions at which a segment of the prompt opens
Marks(p) == {i \in 1..Len(p) : p[i] = "<|im_start|>"}

\* position of the j-th segment opening
NthMark(p, j) ==
    CHOOSE i \in Marks(p) : Cardinality({m \in Marks(p) : m <= i}) = j

\* the j-th segment read back from the prompt
SegmentAt(p, j) ==
    LET from == NthMark(p, j)
        to == IF j < Cardinality(Marks(p)) THEN NthMark(p, j + 1) - 1 ELSE Len(p)
        ended == to - from >= 4 /\ p[to - 1] = "<|im_end|>" /\ p[to] = "\n"
    IN  [role |-> p[from + 1],
         text |-> SubSeq(p, from + 3, IF ended THEN to - 2 ELSE to),
         open |-> ~ended]

RECURSIVE Sides(_)
\* the non-empty sides of the exchanges of h, in order
Sides(h) ==
    IF h = <<>> THEN <<>>
    ELSE (IF Head(h).user # <<>>
          THEN <<[role |-> "user", text |-> Head(h).user, open |-> FALSE]>>
          ELSE <<>>)
         \o (IF Head(h).assistant # <<>>
             THEN <<[role |-> "assistant", text |-> Head(h).assistant,
                     open |-> FALSE]>>
             ELSE <<>>)
         \o Sides(Tail(h))

C22_Step ==
    \A c \in Conns :
       (pc[c] = "receive" /\ pc'[c] = "generate") =>
          LET p == prompt'[c]
              n == Cardinality(Marks(p))
              k == IF Len(history) < 10 THEN Len(history) ELSE 10
              mid == Sides(SubSeq(history, Len(history) - k + 1, Len(history)))
          IN  /\ n = Len(mid) + 3
              /\ p[1] = "<|im_start|>"
              /\ SegmentAt(p, 1).role = "system" /\ ~SegmentAt(p, 1).open
              /\ \A j \in 1..Len(mid) : SegmentAt(p, j + 1) = mid[j]
              /\ SegmentAt(p, n - 1) =
                    [role |-> "user", text |-> user_text'[c], open |-> FALSE]
              /\ SegmentAt(p, n) =
                    [role |-> "assistant", text |-> <<>>, open |-> TRUE]

\* C22: the prompt built at the start of a turn holds the system segment,
\* the non-empty sides of the last min(10, len(history)) exchanges in stored
\* order, the current user segment and an open assistant segment
C22_PromptHoldsRecentExchanges == [][C22_Step]_vars

\* a turn on a log of 12 exchanges: the prompt holds the 13 non-empty sides
\* of the last 10, the first of them the assistant side of the third
C22_Witness ==
    \E c \in active :
       /\ pc[c] = "generate" /\ Len(history) = 12
       /\ user_text[c] = OwlQuery
       /\ Cardinality(Marks(prompt[c])) = 16
       /\ SegmentAt(prompt[c], 2) =
             [role |-> "assistant", text |-> <<"r", "c">>, open |-> FALSE]
       /\ Len(SegmentAt(prompt[c], 1).text) > Len(SYSTEM_PROMPT)

(***************************************************************************)
(* C23.  The grades of report().                                           *)
(***************************************************************************)
\* C23 as stated: every logged duration is graded good under 300 ms,
\* warning from 300 ms to 600 ms inclusive, poor over 600 ms
C23_WarningUpToSixHundred ==
    \A line \in report_out :
       /\ line.grade = "good" <=> line.ms < 300
       /\ line.grade = "warning" <=> (300 <= line.ms /\ line.ms <= 600)
       /\ line.grade = "poor" <=> line.ms > 600

\* C23 amended: every logged duration is graded good under 300 ms, warning
\* from 300 ms up to but not including 600 ms, poor at 600 ms or more; and
\* a report logs one line for every recorded duration
C23_PoorFromSixHundred ==
    /\ \A line \in report_out :
          /\ line.grade \in {"good", "warning", "poor"}
          /\ line.grade = "good" <=> line.ms < 300
          /\ line.grade = "warning" <=> (300 <= line.ms /\ line.ms < 600)
          /\ line.grade = "poor" <=> line.ms >= 600
    /\ plast.op = "report" =>
          /\ {line.name : line \in report_out} = DOMAIN times
          /\ \A line \in report_out : line.ms = times[line.name]

\* a report that logged a duration of 600 ms as poor, next to one of 300 ms
\* as a warning
C23_Witness ==
    /\ plast.op = "report"
    /\ \E line \in report_out : line.ms = 600 /\ line.grade = "poor"
    /\ \E line \in report_out : line.ms = 300 /\ line.grade = "warning"

(***************************************************************************)
(* C24.  The encoder writes one 16-bit sample per input sample; zeros give *)
(* zeros, 1.0 gives 32767, and equal inputs give equal bytes.  The samples *)
(* are read back from the bytes behind the 44-byte header.                 *)
(***************************************************************************)
\* the i-th signed 16-bit sample stored in the bytes b
SampleAt(b, i) ==
    LET u == b[44 + 2 * i - 1] + 256 * b[44 + 2 * i]
    IN  IF u >= 32768 THEN u - 65536 ELSE u

\* the unsigned little-endian number in bytes from..to of b
FieldAt(b, from, to) ==
    LET RECURSIVE Value(_)
        Value(i) == IF i > to THEN 0 ELSE b[i] + 256 * Value(i + 1)
    IN  Value(from)

C24_State ==
    wav.calls > 0 =>
       LET n == Len(wav.samples) IN
       /\ Len(wav.bytes) = 44 + 2 * n
       /\ FieldAt(wav.bytes, 41, 44) = 2 * n
       /\ FieldAt(wav.bytes, 35, 36) = 16
       /\ FieldAt(wav.bytes, 23, 24) = 1
       /\ FieldAt(wav.bytes, 25, 28) = wav.rate
       /\ \A i \in 1..n :
             /\ wav.samples[i] = 0 => SampleAt(wav.bytes, i) = 0
             /\ wav.samples[i] = 4 => SampleAt(wav.bytes, i) = 32767

C24_Step ==
    (wav.calls > 0 /\ wav'.samples = wav.samples /\ wav'.rate = wav.rate)
       => wav'.bytes = wav.bytes

\* C24: the encoder emits one 16-bit sample per input sample, n zeros give
\* n zero samples, a sample of 1.0 gives 32767, and the same input and
\* sample rate give the same bytes
C24_OneSamplePerInput == []C24_State /\ [][C24_Step]_vars

\* the tensor (1.0, 0.0) encoded at 24000 Hz a second time: 48 bytes ending
\* with the samples 32767 and 0
C24_Witness ==
    /\ wav.calls = 2 /\ wav.samples = <<4, 0>> /\ wav.rate = 24000
    /\ SubSeq(wav.bytes, 45, 48) = <<255, 127, 0, 0>>

(***************************************************************************)
(* C25.  A buffer that meets the in-loop flush condition always has text   *)
(* left after the bracketed spans are removed, so every in-loop flush      *)
(* sends one text_chunk and one audio payload before the buffer is         *)
(* cleared.                                                                *)
(***************************************************************************)
C25_State ==
    \A c \in active :
       FlushCond(buffer[c]) =>
          /\ Clean(buffer[c]) # <<>>
          /\ clean[c] = Clean(buffer[c])
          /\ pc[c] \in {"send_text", "tts", "send_audio", "failed"}

C25_Step ==
    \A c \in active :
       /\ (pc[c] = "generate" /\ buffer'[c] # buffer[c] /\ FlushCond(buffer'[c]))
             => pc'[c] = "send_text"
       /\ (buffer[c] # <<>> /\ buffer'[c] = <<>>) =>
             LET n == Len(sent'[c]) IN
             /\ FlushCond(buffer[c])
             /\ flushed'[c] = Append(flushed[c], buffer[c])
             /\ n = 2 * Len(flushed'[c])
             /\ sent'[c][n - 1] = TextChunk(Clean(buffer[c]) \o <<" ">>)
             /\ sent'[c][n] = AudioOf(c, Clean(buffer[c]))

\* C25: whenever the in-loop flush condition holds the bracket-stripped,
\* trimmed text is non-empty, every in-loop flush emits exactly one
\* text_chunk and one audio payload, and the buffer is cleared only after
\* its content was emitted
C25_FlushAlwaysEmits == []C25_State /\ [][C25_Step]_vars

\* a flushed buffer that held a bracketed span: its text and audio were
\* sent and the buffer is empty again
C25_Witness ==
    \E c \in active :
       /\ pc[c] = "generate" /\ buffer[c] = <<>>
       /\ Len(flushed[c]) = 1 /\ Len(sent[c]) = 2
       /\ Clean(flushed[c][1]) # Strip(flushed[c][1])

(***************************************************************************)
(* C26.  Chunking loses and duplicates no generated text.                  *)
(***************************************************************************)
\* C26: at every point of a turn the raw buffers of the flushes so far,
\* followed by the current buffer, spell the full response so far
C26_ChunksSpellResponse ==
    \A c \in active :
       Concat(flushed[c]) \o buffer[c] = full_response[c]

\* the turn "Hello, how are you? " after its second flush, with the last
\* token in the buffer
C26_Witness ==
    \E c \in active :
       /\ pc[c] = "generate" /\ Len(flushed[c]) = 2
       /\ flushed[c][1] # <<>> /\ flushed[c][2] # <<>>
       /\ buffer[c] = <<" ">>
       /\ Len(full_response[c]) = 20

(***************************************************************************)
(* C27.  While every save has succeeded, a crash loses at most the four    *)
(* most recent exchanges.                                                  *)
(***************************************************************************)
\* the exchanges a restart would load from the file
Persisted == {Load(history_file)[j] : j \in 1..Len(Load(history_file))}

\* positions of the in-memory exchanges that are not in the file
Unsaved == {i \in 1..Len(history) : history[i] \notin Persisted}

\* C27: as long as no write to disk has failed, every exchange among the
\* 100 most recent in memory that is not in the persisted log is one of the
\* 4 most recent, so at most 4 exchanges are lost by a crash
C27_AtMostFourUnsaved ==
    ~write_failed =>
       /\ \A i \in Unsaved : i > Len(history) - MAX_HISTORY => i > Len(history) - 4
       /\ Cardinality({i \in Unsaved : i > Len(history) - MAX_HISTORY}) <= 4

\* 104 exchanges in memory, the file holds the first 100: the last 4 are
\* not saved
C27_Witness ==
    /\ ~write_failed
    /\ Len(history) = 104
    /\ Unsaved = 101..104
    /\ Len(Load(history_file)) = 100

(***************************************************************************)
(* C28.  Two turns on two connections that interleave at their awaits:     *)
(* each connection gets the stream of its own tokens and each finished     *)
(* turn stores one exchange with its own user text and response.           *)
(***************************************************************************)
\* the text_chunk contents a client receives for each scripted stream
ExpectedTexts ==
    <<<<<<"H", "e", "l", "l", "o", ",", " ">>,
        <<"h", "o", "w", " ", "a", "r", "e", " ", "y", "o", "u", "?", " ">>>>,
      <<<<"G", "o", "o", "d", ",", " ">>,
        <<"b", "y", "e", ".">>>>>>

\* the whole stream connection c receives for its scripted turn
ExpectedStream(c) ==
    LET t == ExpectedTexts[script[c]]
    IN  <<TextChunk(t[1]), AudioOf(c, Strip(t[1])),
          TextChunk(t[2]), AudioOf(c, Strip(t[2])), DoneMsg>>

IsPrefix(a, b) == Len(a) <= Len(b) /\ SubSeq(b, 1, Len(a)) = a

\* the exchange a finished turn on connection c stores
OwnExchange(c, e) ==
    /\ e.user = user_text[c]
    /\ e.assistant = Strip(Concat(Scripts[script[c]]))

C28_State ==
    \A c \in active :
       /\ IsPrefix(sent[c], ExpectedStream(c))
       /\ Concat(flushed[c]) \o buffer[c] =
             Concat(SubSeq(Scripts[script[c]], 1, ntok[c]))
       /\ full_response[c] = Concat(SubSeq(Scripts[script[c]], 1, ntok[c]))
       /\ Completed(c) =>
             /\ sent[c] = ExpectedStream(c)
             /\ Len(added[c]) = 1 /\ OwnExchange(c, added[c][1])
       /\ Cardinality({i \in 1..Len(history) : OwnExchange(c, history[i])}) =
             (IF Completed(c) THEN 1 ELSE 0)

C28_Step ==
    /\ \A c \in active :
          (Completed(c)' /\ ~Completed(c)) =>
             /\ Len(history') = Len(history) + 1
             /\ SubSeq(history', 1, Len(history)) = history
             /\ OwnExchange(c, history'[Len(history')])
    /\ history' # history => \E c \in active : Completed(c)' /\ ~Completed(c)

\* C28: when two chat turns on different connections interleave at their
\* suspension points, each connection receives the well-formed stream of
\* its own token stream, and each successful turn appends exactly one
\* exchange with its own user text and its own full response
C28_TurnsDoNotMix == []C28_State /\ [][C28_Step]_vars

\* both turns half-way: the first waits to send its second text_chunk, the
\* second waits to send its last audio, and their user texts differ
C28_Witness ==
    /\ pc[1] = "send_text" /\ Len(sent[1]) = 2
    /\ pc[2] = "send_audio" /\ Len(sent[2]) = 3
    /\ user_text[1] = Hi /\ user_text[2] = OwlQuery
    /\ sent[1] # SubSeq(sent[2], 1, 2)

====
